---- MODULE Spec2Model ----
(***************************************************************************)
(* A model of the fabric service container (package pkg/container):        *)
(* Register, ResolveName, tag-triggered resolution, AddMiddleware,         *)
(* AddTagProcessor and Cleanup, with the ServiceContainer's maps and       *)
(* slices as the state.  Strings that the code parses (fabric tags,        *)
(* service names) are sequences of one-character strings.                  *)
(***************************************************************************)
EXTENDS Integers, Sequences, FiniteSets, TLC

(***************************************************************************)
(* Bounds of the model.                                                    *)
(***************************************************************************)
MaxRegister == 2
MaxResolve == 2
MaxMiddleware == 2
MaxTagProcessor == 1
MaxCleanup == 1
MaxRegisterConc == 1
MaxResolveConc == 3
MaxMiddlewareConc == 1
MaxRegisterLife == 1
MaxResolveLife == 3
MaxMiddlewareLife == 1
MaxRegisterTag == 3
MaxResolveTag == 2
MaxMiddlewareTag == 2
MaxRegisterType == 2
MaxResolveType == 2
MaxMiddlewareType == 2
MaxRegisterOpt == 2
MaxResolveOpt == 1
MaxMiddlewareOpt == 1
MaxRegisterRereg == 3
MaxResolveRereg == 3
MaxMiddlewareRereg == 1
MaxRegisterDep == 3
MaxResolveDep == 2
MaxMiddlewareDep == 1
MaxRegisterProc == 3
MaxResolveProc == 1
MaxTagProcessorProc == 2
MaxAdd == 3
MaxErrors == 2
MaxRegisterReenter == 2
MaxResolveReenter == 2
MaxMiddlewareReenter == 1
MaxRegisterLock == 2
MaxResolveLock == 2
MaxMiddlewareLock == 1
MaxTagProcessorLock == 1

Procs == {1, 2}

(***************************************************************************)
(* Strings.                                                                *)
(***************************************************************************)
sEmpty == << >>
sInject == <<"i", "n", "j", "e", "c", "t">>
sColon == <<":">>
sCache == <<"c", "a", "c", "h", "e">>
sInjectCache == sInject \o sColon \o sCache
sConfig == <<"c", "o", "n", "f", "i", "g">>
\* a tag value no processor of the application accepts
sSecret == <<"s", "e", "c", "r", "e", "t">>

UpperChars == <<"A","B","C","D","E","F","G","H","I","J","K","L","M",
                "N","O","P","Q","R","S","T","U","V","W","X","Y","Z">>
LowerChars == <<"a","b","c","d","e","f","g","h","i","j","k","l","m",
                "n","o","p","q","r","s","t","u","v","w","x","y","z">>

ToLowerChar(c) ==
  IF \E i \in 1..26 : UpperChars[i] = c
  THEN LowerChars[CHOOSE i \in 1..26 : UpperChars[i] = c]
  ELSE c

ToLower(s) == [i \in 1..Len(s) |-> ToLowerChar(s[i])]

\* strings.EqualFold on the letters the tags use
EqualFold(s, t) == ToLower(s) = ToLower(t)

HasPrefix(s, pre) ==
  /\ Len(s) >= Len(pre)
  /\ SubSeq(s, 1, Len(pre)) = pre

Contains(s, c) == \E i \in 1..Len(s) : s[i] = c

IndexOf(s, c) == CHOOSE i \in 1..Len(s) : s[i] = c /\ \A j \in 1..(i-1) : s[j] # c

\* strings.SplitN(value, ":", 2)[1]: what follows the first colon
AfterFirst(s, c) == SubSeq(s, IndexOf(s, c) + 1, Len(s))

RECURSIVE TrimLeft(_)
TrimLeft(s) == IF s # << >> /\ Head(s) = " " THEN TrimLeft(Tail(s)) ELSE s

RECURSIVE TrimRight(_)
TrimRight(s) ==
  IF s # << >> /\ s[Len(s)] = " " THEN TrimRight(SubSeq(s, 1, Len(s) - 1)) ELSE s

TrimSpace(s) == TrimRight(TrimLeft(s))

(***************************************************************************)
(* The Go types of the application: pointer-to-struct service types, the   *)
(* interfaces they implement, their fields' fabric tags, and which of them *)
(* implement LifecycleService.                                             *)
(***************************************************************************)
ConcreteTypes == {"Logger", "Db", "Agent", "Worker", "Cfg", "Mixed", "Named"}
InterfaceTypes == {"IDb"}
TypeKeys == ConcreteTypes \cup InterfaceTypes
Names == {sEmpty, sCache}

Implements(ty) ==
  IF ty = "Db" THEN {"IDb"} ELSE {}

\* the struct fields: declared type and fabric tag
Fields(ty) ==
  CASE ty = "Agent" -> << [type |-> "IDb", tag |-> sInject],
                          [type |-> "IDb", tag |-> sInjectCache] >>
    [] ty = "Worker" -> << [type |-> "IDb", tag |-> sInjectCache],
                           [type |-> "Logger", tag |-> sInject] >>
    [] ty = "Named" -> << [type |-> "IDb", tag |-> sInjectCache] >>
    [] ty = "Cfg" -> << [type |-> "IDb", tag |-> sConfig] >>
    [] ty = "Mixed" -> << [type |-> "IDb", tag |-> sInject],
                          [type |-> "IDb", tag |-> sConfig] >>
    [] OTHER -> << >>

LifecycleTypes == {"Db"}

Key(t, n) == [t |-> t, n |-> n]
Keys == {Key(t, n) : t \in TypeKeys, n \in Names}

NoInst == [id |-> 0, ty |-> "nil", fields |-> << >>]
NewInst(id, ty) == [id |-> id, ty |-> ty, fields |-> [i \in 1..Len(Fields(ty)) |-> 0]]

\* the type assertion singleton.(T)
Satisfies(inst, t) ==
  /\ inst # NoInst
  /\ \/ inst.ty = t
     \/ t \in Implements(inst.ty)

\* singleton.(LifecycleService)
IsLifecycle(inst) == inst.ty \in LifecycleTypes

(***************************************************************************)
(* State.  services, singletons, lifecycles, middlewares and processors    *)
(* are the ServiceContainer's fields; nextId numbers the instances on the  *)
(* heap so that reference identity can be compared; resolver holds each    *)
(* caller's position inside ResolveName.                                   *)
(* The remaining variables count the calls made and record their results   *)
(* (lastErr: whether the last Register returned an error; regErrs: the     *)
(* positions of the options whose errors that error reports; earlyReg: the *)
(* types whose Registration with a synthesized injecting factory was made  *)
(* while the type of one of the tagged fields was not registered;          *)
(* singleRet: the                                                          *)
(* instances ResolveName returned for a singleton registration of a key;   *)
(* factoryCalls: the factory calls ResolveName made for one; initLog: the  *)
(* instances whose Init returned nil, in the order of the calls;           *)
(* cleanupLog and cleanupErrs: the Cleanup calls of the last teardown and  *)
(* those that failed; dispatched: the last tag value handed to             *)
(* processField, with the processor that handled it) and are read only by  *)
(* the properties.                                                         *)
(* mutex and errors are the fields of an Errors accumulator (errors.go),   *)
(* caller each goroutine's position inside its Add or Errors call; addLog  *)
(* lists the arguments of the Add calls that have returned and joined      *)
(* records the last return of Errors(), both for the properties.           *)
(***************************************************************************)
VARIABLES services, singletons, lifecycles, middlewares, processors,
          nextId, resolver,
          nRegister, nResolve, nCleanup,
          lastErr, regErrs, earlyReg, singleRet, factoryCalls, initLog,
          cleanupLog, cleanupErrs, mu, thread, access, dispatched,
          mutex, errors, caller, addLog, joined

container == <<services, singletons, lifecycles, middlewares, processors>>
vars == <<services, singletons, lifecycles, middlewares, processors,
          nextId, resolver, nRegister, nResolve, nCleanup,
          lastErr, regErrs, earlyReg, singleRet, factoryCalls, initLog,
          cleanupLog, cleanupErrs, mu, thread, access, dispatched,
          mutex, errors, caller, addLog, joined>>

(***************************************************************************)
(* The Errors accumulator (errors.go).  An error is a number, nil is 0; a  *)
(* joined error is the sequence of the errors it wraps, and << >> is nil.  *)
(***************************************************************************)
NilErr == 0
ErrValues == {NilErr, 1, 2}

\* errors.Join: the nil values are discarded, and the result is nil when
\* none is left
Join(errs) == SelectSeq(errs, LAMBDA x : x # NilErr)

\* a goroutine that is in no call of the Errors accumulator, and the
\* record of the Errors() calls: how many have returned, how many Add
\* calls had returned before the last, and what it returned
IdleCaller == [pc |-> "idle", err |-> NilErr, read |-> << >>]
NoJoin == [calls |-> 0, n |-> 0, val |-> << >>]

AddsInProgress ==
  Cardinality({p \in Procs : caller[p].pc \in {"lock", "read", "write", "unlock"}})

\* errors.go lines 18-21: Add is called, and returns at once for nil
AddCall(p, err) ==
  /\ caller[p].pc = "idle"
  /\ Len(addLog) + AddsInProgress < MaxAdd
  /\ IF err = NilErr
     THEN addLog' = Append(addLog, err) /\ caller' = caller
     ELSE /\ caller' = [caller EXCEPT ![p] = [IdleCaller EXCEPT !.pc = "lock", !.err = err]]
          /\ addLog' = addLog
  /\ UNCHANGED <<services, singletons, lifecycles, middlewares, processors,
                 nextId, resolver, nRegister, nResolve, nCleanup, lastErr,
                 regErrs, earlyReg, singleRet, factoryCalls, initLog,
                 cleanupLog, cleanupErrs, mu, thread, access, dispatched,
                 mutex, errors, joined>>

\* an Add that goes on without e.mutex
AddNoLock(p) ==
  /\ caller[p].pc = "lock"
  /\ caller' = [caller EXCEPT ![p].pc = "read"]
  /\ UNCHANGED <<services, singletons, lifecycles, middlewares, processors,
                 nextId, resolver, nRegister, nResolve, nCleanup, lastErr,
                 regErrs, earlyReg, singleRet, factoryCalls, initLog,
                 cleanupLog, cleanupErrs, mu, thread, access, dispatched,
                 mutex, errors, addLog, joined>>

\* errors.go line 23: e.mutex.Lock()
AddLock(p) ==
  /\ caller[p].pc = "lock"
  /\ mutex = 0
  /\ mutex' = p
  /\ caller' = [caller EXCEPT ![p].pc = "read"]
  /\ UNCHANGED <<services, singletons, lifecycles, middlewares, processors,
                 nextId, resolver, nRegister, nResolve, nCleanup, lastErr,
                 regErrs, earlyReg, singleRet, factoryCalls, initLog,
                 cleanupLog, cleanupErrs, mu, thread, access, dispatched,
                 errors, addLog, joined>>

\* errors.go line 24: append reads e.errors
AddRead(p) ==
  /\ caller[p].pc = "read"
  /\ caller' = [caller EXCEPT ![p].read = errors, ![p].pc = "write"]
  /\ UNCHANGED <<services, singletons, lifecycles, middlewares, processors,
                 nextId, resolver, nRegister, nResolve, nCleanup, lastErr,
                 regErrs, earlyReg, singleRet, factoryCalls, initLog,
                 cleanupLog, cleanupErrs, mu, thread, access, dispatched,
                 mutex, errors, addLog, joined>>

\* errors.go line 24: the result of append is assigned to e.errors
AddWrite(p) ==
  /\ caller[p].pc = "write"
  /\ errors' = Append(caller[p].read, caller[p].err)
  /\ caller' = [caller EXCEPT ![p].pc = "unlock"]
  /\ UNCHANGED <<services, singletons, lifecycles, middlewares, processors,
                 nextId, resolver, nRegister, nResolve, nCleanup, lastErr,
                 regErrs, earlyReg, singleRet, factoryCalls, initLog,
                 cleanupLog, cleanupErrs, mu, thread, access, dispatched,
                 mutex, addLog, joined>>

\* errors.go lines 25-26: e.mutex.Unlock(), and Add returns
AddUnlock(p) ==
  /\ caller[p].pc = "unlock"
  /\ mutex' = 0
  /\ addLog' = Append(addLog, caller[p].err)
  /\ caller' = [caller EXCEPT ![p] = IdleCaller]
  /\ UNCHANGED <<services, singletons, lifecycles, middlewares, processors,
                 nextId, resolver, nRegister, nResolve, nCleanup, lastErr,
                 regErrs, earlyReg, singleRet, factoryCalls, initLog,
                 cleanupLog, cleanupErrs, mu, thread, access, dispatched,
                 errors, joined>>

\* errors.go lines 31-32: Errors() takes e.mutex
ErrorsLock(p) ==
  /\ caller[p].pc = "idle"
  /\ joined.calls + Cardinality({q \in Procs : caller[q].pc = "join"}) < MaxErrors
  /\ mutex = 0
  /\ mutex' = p
  /\ caller' = [caller EXCEPT ![p].pc = "join"]
  /\ UNCHANGED <<services, singletons, lifecycles, middlewares, processors,
                 nextId, resolver, nRegister, nResolve, nCleanup, lastErr,
                 regErrs, earlyReg, singleRet, factoryCalls, initLog,
                 cleanupLog, cleanupErrs, mu, thread, access, dispatched,
                 errors, addLog, joined>>

\* errors.go lines 34-38: the result of Errors(), and the deferred Unlock
ErrorsReturn(p) ==
  /\ caller[p].pc = "join"
  /\ joined' = [calls |-> joined.calls + 1, n |-> Len(addLog),
                val |-> IF Len(errors) = 0 THEN << >> ELSE Join(errors)]
  /\ mutex' = 0
  /\ caller' = [caller EXCEPT ![p] = IdleCaller]
  /\ UNCHANGED <<services, singletons, lifecycles, middlewares, processors,
                 nextId, resolver, nRegister, nResolve, nCleanup, lastErr,
                 regErrs, earlyReg, singleRet, factoryCalls, initLog,
                 cleanupLog, cleanupErrs, mu, thread, access, dispatched,
                 errors, addLog>>

(***************************************************************************)
(* Registrations and options (service.go).                                 *)
(***************************************************************************)
NoFactory == [kind |-> "nil", ty |-> "nil", out |-> "nil", inst |-> NoInst]
NoReg == [Name |-> sEmpty, IsSingleton |-> FALSE, Factory |-> NoFactory,
          Interfaces |-> [i \in InterfaceTypes |-> << >>]]

defaultRegistrationOptions ==
  [Name |-> sEmpty, IsSingleton |-> FALSE, Factory |-> NoFactory,
   Interfaces |-> [i \in InterfaceTypes |-> << >>]]

AsSingleton == [o |-> "AsSingleton"]
\* out: what the supplied factory does when called: "ok" returns a new
\* instance of ty, "err" returns an error, "wrong" returns an instance of
\* another type
AsFactory(ty, out) == [o |-> "AsFactory", ty |-> ty, out |-> out]
WithInstance(ty) == [o |-> "WithInstance", ty |-> ty]
With(i) == [o |-> "With", i |-> i]
WithName(i, n) == [o |-> "WithName", i |-> i, n |-> n]
\* a RegistrationOption of the application that returns an error
FailingOption == [o |-> "Fail"]

\* one option applied to the registration rs; nid is the address of the
\* instance a WithInstance option carries
ApplyOption(rs, opt, nid) ==
  CASE opt.o = "AsSingleton" ->
         [rs |-> [rs EXCEPT !.IsSingleton = TRUE], err |-> FALSE]
    [] opt.o = "AsFactory" ->
         [rs |-> [rs EXCEPT !.Factory =
                    [kind |-> "custom", ty |-> opt.ty, out |-> opt.out, inst |-> NoInst]],
          err |-> FALSE]
    [] opt.o = "WithInstance" ->
         [rs |-> [rs EXCEPT !.Factory =
                    [kind |-> "instance", ty |-> opt.ty, out |-> "ok",
                     inst |-> NewInst(nid, opt.ty)]],
          err |-> FALSE]
    [] opt.o = "With" ->
         [rs |-> [rs EXCEPT !.Interfaces[opt.i] = Append(@, sEmpty)], err |-> FALSE]
    [] opt.o = "WithName" ->
         [rs |-> [rs EXCEPT !.Interfaces[opt.i] = Append(@, opt.n)], err |-> FALSE]
    [] OTHER -> [rs |-> rs, err |-> TRUE]

\* a loop over opts that skips the options that fail
RECURSIVE IgnoreFailingOptions(_, _, _)
IgnoreFailingOptions(rs, opts, nid) ==
  IF opts = << >> THEN [rs |-> rs, err |-> FALSE]
  ELSE LET a == ApplyOption(rs, Head(opts), nid)
       IN IgnoreFailingOptions(a.rs, Tail(opts), nid)

\* the loop over opts in Register: stops at the first option that fails
RECURSIVE ApplyOptions(_, _, _)
ApplyOptions(rs, opts, nid) ==
  IF opts = << >> THEN [rs |-> rs, err |-> FALSE]
  ELSE LET a == ApplyOption(rs, Head(opts), nid)
       IN IF a.err THEN a ELSE ApplyOptions(a.rs, Tail(opts), nid)

\* whether the option returns an error
OptionFails(opt) == ApplyOption(defaultRegistrationOptions, opt, 0).err

\* the positions of the options whose errors the error of Register
\* reports: Register returns at the first option that fails
ReportedOptionErrors(opts) ==
  IF \E i \in 1..Len(opts) : OptionFails(opts[i])
  THEN << CHOOSE i \in 1..Len(opts) :
            /\ OptionFails(opts[i])
            /\ \A j \in 1..(i-1) : ~OptionFails(opts[j]) >>
  ELSE << >>

(***************************************************************************)
(* Tag processors (processor.go, processor_inject.go).                     *)
(***************************************************************************)
InjectTagProcessor == [kind |-> "inject", prio |-> 0]
\* the custom processor of the README: priority 100, accepts "config"
ConfigTagProcessor == [kind |-> "config", prio |-> 100]

\* custom processors of the application that accept the tag "inject": one
\* of the priority of ConfigTagProcessor, one below InjectTagProcessor
OverrideTagProcessor == [kind |-> "override", prio |-> 100]
FallbackTagProcessor == [kind |-> "fallback", prio |-> -1]

CanProcess(proc, value) ==
  CASE proc.kind = "inject" ->
         EqualFold(value, sInject) \/ HasPrefix(ToLower(value), sInject \o sColon)
    [] proc.kind = "config" -> value = sConfig
    [] OTHER -> value = sInject

hasProcessorFor(procs, value) ==
  \E i \in 1..Len(procs) : CanProcess(procs[i], value)

\* GetPriority in non-increasing order along the slice
ByPriority(procs) ==
  \A i \in 1..Len(procs) : \A j \in i..Len(procs) : procs[i].prio >= procs[j].prio

\* sort.Slice by descending priority: the sort is not stable, so that any
\* reordering of the slice that puts the priorities in order may result
SortSlice(procs) ==
  LET n == Len(procs)
      moves == {f \in [1..n -> 1..n] : \A i, j \in 1..n : i # j => f[i] # f[j]}
  IN {s \in {[i \in 1..n |-> procs[f[i]]] : f \in moves} : ByPriority(s)}

\* the slices TagProcessorManager.registerProcessor may leave
registerProcessor(procs, proc) == SortSlice(Append(procs, proc))

(***************************************************************************)
(* Fabric tags at registration (tags.go).                                  *)
(***************************************************************************)
hasFabricTags(ty) ==
  \E i \in 1..Len(Fields(ty)) : Fields(ty)[i].tag = sInject

validateFabricTags(ty, procs) ==
  \A i \in 1..Len(Fields(ty)) :
     Fields(ty)[i].tag # sEmpty => hasProcessorFor(procs, Fields(ty)[i].tag)

(***************************************************************************)
(* What one resolution does to the container.  A resolution threads a      *)
(* record w through its calls: sing and life are sc.singletons and         *)
(* sc.lifecycles as the calls leave them, nid the next free instance       *)
(* address, inits the instances whose Init returned nil, in the order of   *)
(* the calls, n the numbers of factory, middleware and Init invocations.   *)
(* Every call returns [w, val, err]; err = "" is Go's nil error and        *)
(* "panic" a run-time panic that unwinds the resolution.                   *)
(***************************************************************************)
World(sing, life, nid, inits) ==
  [sing |-> sing, life |-> life, nid |-> nid, inits |-> inits,
   n |-> [f |-> 0, m |-> 0, i |-> 0]]

Ret(w, val, err) == [w |-> w, val |-> val, err |-> err]

\* a lookup that falls back to any registration of the type when the name
\* is not registered
LookupAnyName(k) ==
  IF k \in DOMAIN services /\ services[k] # NoReg THEN services[k]
  ELSE IF \E j \in DOMAIN services : j.t = k.t /\ services[j] # NoReg
       THEN services[CHOOSE j \in DOMAIN services : j.t = k.t /\ services[j] # NoReg]
       ELSE NoReg

Lookup(k) == IF k \in DOMAIN services THEN services[k] ELSE NoReg

\* sc.services[t] exists: the inner map is made with its first entry
TypeRegistered(t) == \E k \in DOMAIN services : k.t = t /\ services[k] # NoReg

Cached(sing, k) == IF k \in DOMAIN sing THEN sing[k] ELSE NoInst

\* a type the application's factory returns in place of ty
WrongType(ty) == IF ty = "Logger" THEN "Db" ELSE "Logger"

\* MiddlewareService.Process of the application's middlewares: "pass"
\* returns the instance, "wrap" a new object of the same type around it,
\* "swap" a new object of another type in its place, "fail" an error
MiddlewareKinds == {"pass", "wrap", "fail"}

Process(mw, inst, w) ==
  LET w1 == [w EXCEPT !.n.m = @ + 1]
  IN CASE mw = "pass" -> Ret(w1, inst, "")
       [] mw = "wrap" -> Ret([w1 EXCEPT !.nid = @ + 1], [inst EXCEPT !.id = w1.nid], "")
       [] mw = "swap" -> Ret([w1 EXCEPT !.nid = @ + 1],
                             NewInst(w1.nid, WrongType(inst.ty)), "")
       [] OTHER -> Ret(w1, NoInst, "middleware")

\* the loop over sc.middlewares in resolveByName
RECURSIVE RunMiddlewares(_, _, _)
RunMiddlewares(mws, inst, w) ==
  IF mws = << >> THEN Ret(w, inst, "")
  ELSE LET r == Process(Head(mws), inst, w)
       IN IF r.err # "" THEN r ELSE RunMiddlewares(Tail(mws), r.val, r.w)

\* a runLifecycle that appends the instance before it calls Init
TrackBeforeInit(inst, w, initOk) ==
  IF IsLifecycle(inst)
  THEN IF initOk
       THEN Ret([w EXCEPT !.n.i = @ + 1, !.life = Append(@, inst),
                          !.inits = Append(@, inst.id)], inst, "")
       ELSE Ret([w EXCEPT !.n.i = @ + 1, !.life = Append(@, inst)], inst, "init")
  ELSE Ret(w, inst, "")

\* initOk: whether the instance's Init returns nil
runLifecycle(inst, w, initOk) ==
  IF IsLifecycle(inst)
  THEN IF initOk
       THEN Ret([w EXCEPT !.n.i = @ + 1, !.life = Append(@, inst),
                          !.inits = Append(@, inst.id)], inst, "")
       ELSE Ret([w EXCEPT !.n.i = @ + 1], inst, "init")
  ELSE Ret(w, inst, "")

\* a store that leaves the cache as it was
StoreNothing(sing, k, inst) == sing

StoreSingleton(sing, k, inst) == [sing EXCEPT ![k] = inst]

RECURSIVE CallFactory(_, _, _)
RECURSIVE ProcessFields(_, _, _, _, _)
RECURSIVE ResolveByType(_, _, _)
RECURSIVE resolveByName(_, _, _, _)

\* a Process that drops the name after the colon
InjectUnnamedOnly(fld, value, w, initOk) ==
  LET r == ResolveByType(fld.type, w, initOk)
  IN IF r.err = "panic" THEN r
     ELSE IF r.err # "" THEN Ret(r.w, NoInst, "inject")
     ELSE r

\* InjectTagProcessor.Process
InjectProcess(fld, value, w, initOk) ==
  LET serviceName == IF Contains(value, ":")
                     THEN TrimSpace(AfterFirst(value, ":"))
                     ELSE sEmpty
  IN IF serviceName # sEmpty
     THEN resolveByName(fld.type, serviceName, w, initOk)
     ELSE LET r == ResolveByType(fld.type, w, initOk)
          IN IF r.err = "panic" THEN r
             ELSE IF r.err # "" THEN Ret(r.w, NoInst, "inject")
             ELSE r

\* Process of the application's "config" processor: it resolves no value
ConfigProcess(fld, value, w) == Ret(w, NoInst, "")

\* a loop that goes on after a processor has accepted the value: the last
\* processor that accepts it handles the field
LastAccepting(procs, value, i) ==
  IF \E j \in i..Len(procs) : CanProcess(procs[j], value)
  THEN CHOOSE j \in i..Len(procs) :
         /\ CanProcess(procs[j], value)
         /\ \A k \in (j+1)..Len(procs) : ~CanProcess(procs[k], value)
  ELSE 0

\* the loop of processField from position i on: the position of the
\* processor whose Process is called, 0 when the loop ends without a call
RECURSIVE Handler(_, _, _)
Handler(procs, value, i) ==
  IF i > Len(procs) THEN 0
  ELSE IF CanProcess(procs[i], value) THEN i
  ELSE Handler(procs, value, i + 1)

\* TagProcessorManager.processField; the Process of a custom processor
\* resolves no value
processField(fld, value, w, initOk) ==
  LET i == Handler(processors, value, 1)
  IN IF i = 0 THEN Ret(w, NoInst, "noprocessor")
     ELSE IF processors[i].kind = "inject"
          THEN InjectProcess(fld, value, w, initOk)
          ELSE ConfigProcess(fld, value, w)

\* the loop over the fields in the factory of createFabricTagFactory
ProcessFields(ty, i, inst, w, initOk) ==
  IF i > Len(Fields(ty)) THEN Ret(w, inst, "")
  ELSE LET fld == Fields(ty)[i]
       IN IF fld.tag = sEmpty THEN ProcessFields(ty, i + 1, inst, w, initOk)
          ELSE LET r == processField(fld, fld.tag, w, initOk)
               IN IF r.err # "" THEN Ret(r.w, NoInst, r.err)
                  ELSE IF r.val = NoInst
                       THEN ProcessFields(ty, i + 1, inst, r.w, initOk)
                  ELSE IF ~Satisfies(r.val, fld.type)
                       THEN Ret(r.w, NoInst, "panic")
                  ELSE ProcessFields(ty, i + 1,
                                     [inst EXCEPT !.fields[i] = r.val.id], r.w, initOk)

\* a default factory that hands out one shared zero value
SharedDefault(ty, w) == Ret(w, NewInst(0, ty), "")

\* the default factory Register synthesizes
DefaultFactory(ty, w) == Ret([w EXCEPT !.nid = @ + 1], NewInst(w.nid, ty), "")

\* the factory createFabricTagFactory returns
FabricTagFactory(ty, w, initOk) ==
  ProcessFields(ty, 1, NewInst(w.nid, ty), [w EXCEPT !.nid = @ + 1], initOk)

\* service.Factory(ctx, sc)
CallFactory(f, w, initOk) ==
  LET w1 == [w EXCEPT !.n.f = @ + 1]
  IN CASE f.kind = "default" -> DefaultFactory(f.ty, w1)
       [] f.kind = "tag" -> FabricTagFactory(f.ty, w1, initOk)
       [] f.kind = "instance" -> Ret(w1, f.inst, "")
       [] f.kind = "custom" /\ f.out = "ok" ->
            Ret([w1 EXCEPT !.nid = @ + 1], NewInst(w1.nid, f.ty), "")
       [] f.kind = "custom" /\ f.out = "wrong" ->
            Ret([w1 EXCEPT !.nid = @ + 1], NewInst(w1.nid, WrongType(f.ty)), "")
       [] OTHER -> Ret(w1, NoInst, "factory")

\* ServiceContainer.ResolveByType
ResolveByType(t, w, initOk) ==
  LET k == Key(t, sEmpty)
      service == Lookup(k)
  IN IF ~TypeRegistered(t) \/ service = NoReg THEN Ret(w, NoInst, "notfound")
     ELSE IF service.IsSingleton /\ Cached(w.sing, k) # NoInst
          THEN Ret(w, Cached(w.sing, k), "")
     ELSE IF service.Factory = NoFactory THEN Ret(w, NoInst, "nofactory")
     ELSE CallFactory(service.Factory, w, initOk)

\* InjectTagProcessor.resolveByName
resolveByName(t, name, w, initOk) ==
  LET k == Key(t, name)
      service == Lookup(k)
  IN IF ~TypeRegistered(t) \/ service = NoReg THEN Ret(w, NoInst, "notfound")
     ELSE IF service.IsSingleton /\ Cached(w.sing, k) # NoInst
          THEN Ret(w, Cached(w.sing, k), "")
     ELSE IF service.Factory = NoFactory THEN Ret(w, NoInst, "nofactory")
     ELSE LET a == CallFactory(service.Factory, w, initOk)
          IN IF a.err # "" THEN a
             ELSE LET b == RunMiddlewares(middlewares, a.val, a.w)
                  IN IF b.err # "" THEN b
                     ELSE LET c == runLifecycle(b.val, b.w, initOk)
                          IN IF c.err # "" THEN Ret(c.w, NoInst, c.err)
                             ELSE IF service.IsSingleton
                                  THEN Ret([c.w EXCEPT !.sing =
                                              StoreSingleton(@, k, c.val)],
                                           c.val, "")
                                  ELSE c

(***************************************************************************)
(* Register.                                                               *)
(***************************************************************************)
HasFactoryOption(opts) ==
  \E i \in 1..Len(opts) : opts[i].o \in {"AsFactory", "WithInstance"}

\* the factory Register synthesizes when the options supplied none
SynthesizedFactory(ty) ==
  IF hasFabricTags(ty)
  THEN [kind |-> "tag", ty |-> ty, out |-> "ok", inst |-> NoInst]
  ELSE [kind |-> "default", ty |-> ty, out |-> "ok", inst |-> NoInst]

\* some tagged field of ty has a type without any Registration
DependencyMissing(ty) ==
  \E i \in 1..Len(Fields(ty)) :
     Fields(ty)[i].tag # sEmpty /\ ~TypeRegistered(Fields(ty)[i].type)

\* a Register that also fails while a tagged field's type is unregistered
RegisterNeedsDependencies(ty, applied) ==
  \/ applied.err
  \/ /\ applied.rs.Factory = NoFactory
     /\ hasFabricTags(ty)
     /\ (~validateFabricTags(ty, processors) \/ DependencyMissing(ty))

\* whether Register returns an error
RegisterFails(ty, applied) ==
  \/ applied.err
  \/ /\ applied.rs.Factory = NoFactory
     /\ hasFabricTags(ty)
     /\ ~validateFabricTags(ty, processors)

\* a Register that stores the Registration under the concrete key only
ConcreteKeyOnly(ty, options) == {Key(ty, options.Name)}

\* the keys Register stores the Registration under
RegisteredKeys(ty, options) ==
  {Key(ty, options.Name)} \cup
  {k \in Keys : /\ k.t \in InterfaceTypes
                /\ \E j \in 1..Len(options.Interfaces[k.t]) :
                      options.Interfaces[k.t][j] = k.n}

\* a Register that synthesizes the factory whatever the options supplied
AlwaysSynthesize(ty, rs) == SynthesizedFactory(ty)

\* lines 58-91: the factory of the Registration
FactoryOrSynthesized(ty, rs) ==
  IF rs.Factory = NoFactory THEN SynthesizedFactory(ty) ELSE rs.Factory

\* a Register that also empties the Singleton Cache
RegisterResetsCache(ty, opts) ==
  LET applied == ApplyOptions(defaultRegistrationOptions, opts, nextId)
      failed == RegisterFails(ty, applied)
      options == [applied.rs EXCEPT !.Factory = FactoryOrSynthesized(ty, applied.rs)]
  IN /\ services' = IF failed THEN services
                    ELSE [k \in Keys |->
                            IF k \in RegisteredKeys(ty, options) THEN options
                            ELSE services[k]]
     /\ singletons' = IF failed THEN singletons ELSE [k \in Keys |-> NoInst]
     /\ nextId' = IF \E i \in 1..Len(opts) : opts[i].o = "WithInstance"
                  THEN nextId + 1 ELSE nextId
     /\ lastErr' = failed
     /\ regErrs' = ReportedOptionErrors(opts)
     /\ earlyReg' = IF failed THEN earlyReg
                    ELSE IF options.Factory.kind = "tag" /\ DependencyMissing(ty)
                         THEN earlyReg \cup {ty}
                    ELSE earlyReg \ {ty}
     /\ nRegister' = nRegister + 1
     /\ UNCHANGED <<lifecycles, middlewares, processors, resolver, nResolve,
                    nCleanup, singleRet, factoryCalls, initLog, cleanupLog,
                    cleanupErrs, mu, thread, access, dispatched, mutex,
                    errors, caller, addLog, joined>>

\* part_001 lines 47-116
Register(ty, opts) ==
  LET applied == ApplyOptions(defaultRegistrationOptions, opts, nextId)
      failed == RegisterFails(ty, applied)
      options == [applied.rs EXCEPT !.Factory = FactoryOrSynthesized(ty, applied.rs)]
  IN /\ services' = IF failed THEN services
                    ELSE [k \in Keys |->
                            IF k \in RegisteredKeys(ty, options) THEN options
                            ELSE services[k]]
     /\ nextId' = IF \E i \in 1..Len(opts) : opts[i].o = "WithInstance"
                  THEN nextId + 1 ELSE nextId
     /\ lastErr' = failed
     /\ regErrs' = ReportedOptionErrors(opts)
     /\ earlyReg' = IF failed THEN earlyReg
                    ELSE IF options.Factory.kind = "tag" /\ DependencyMissing(ty)
                         THEN earlyReg \cup {ty}
                    ELSE earlyReg \ {ty}
     /\ nRegister' = nRegister + 1
     /\ UNCHANGED <<singletons, lifecycles, middlewares, processors,
                    resolver, nResolve, nCleanup, singleRet, factoryCalls,
                    initLog, cleanupLog, cleanupErrs, mu, thread, access,
                    dispatched, mutex, errors, caller, addLog, joined>>

(***************************************************************************)
(* AddMiddleware, AddTagProcessor, Cleanup (container.go).                 *)
(***************************************************************************)
AddMiddleware(mw) ==
  /\ middlewares' = Append(middlewares, mw)
  /\ UNCHANGED <<services, singletons, lifecycles, processors, nextId,
                 resolver, nRegister, nResolve, nCleanup, lastErr, regErrs,
                 earlyReg, singleRet, factoryCalls, initLog, cleanupLog,
                 cleanupErrs, mu, thread, access, dispatched, mutex, errors,
                 caller, addLog, joined>>

AddTagProcessor(proc) ==
  /\ processors' \in registerProcessor(processors, proc)
  /\ UNCHANGED <<services, singletons, lifecycles, middlewares, nextId,
                 resolver, nRegister, nResolve, nCleanup, lastErr, regErrs,
                 earlyReg, singleRet, factoryCalls, initLog, cleanupLog,
                 cleanupErrs, mu, thread, access, dispatched, mutex, errors,
                 caller, addLog, joined>>

\* processField handed the tag value of a field: the loop up to the call
\* of Process (part_002 lines 73-81)
DispatchTag(value) ==
  LET i == Handler(processors, value, 1)
  IN /\ dispatched' = [value |-> value, handler |-> i,
                       kind |-> IF i = 0 THEN "nil" ELSE processors[i].kind,
                       err |-> IF i = 0 THEN "noprocessor" ELSE ""]
     /\ UNCHANGED <<services, singletons, lifecycles, middlewares,
                    processors, nextId, resolver, nRegister, nResolve,
                    nCleanup, lastErr, regErrs, earlyReg, singleRet,
                    factoryCalls, initLog, cleanupLog, cleanupErrs, mu,
                    thread, access, mutex, errors, caller, addLog, joined>>

\* a loop of Cleanup that runs from the first tracked instance to the last
RECURSIVE CleanupForward(_, _)
CleanupForward(life, i) ==
  IF i < 1 THEN << >> ELSE CleanupForward(life, i - 1) \o <<life[i].id>>

\* the loop of Cleanup from index i down: the instances whose Cleanup is
\* called, in the order of the calls
RECURSIVE CleanupOrder(_, _)
CleanupOrder(life, i) ==
  IF i < 1 THEN << >> ELSE <<life[i].id>> \o CleanupOrder(life, i - 1)

\* an accumulator that keeps only the first error added
RECURSIVE CleanupFirstError(_, _, _)
CleanupFirstError(life, i, failing) ==
  IF i < 1 THEN << >>
  ELSE IF i \in failing THEN <<life[i].id>>
  ELSE CleanupFirstError(life, i - 1, failing)

\* the errors collected by errs.Add, given the positions whose Cleanup fails
RECURSIVE CleanupErrors(_, _, _)
CleanupErrors(life, i, failing) ==
  IF i < 1 THEN << >>
  ELSE (IF i \in failing THEN <<life[i].id>> ELSE << >>)
       \o CleanupErrors(life, i - 1, failing)

\* a Cleanup that empties the tracker once the instances are cleaned up
CleanupAndClear(failing) ==
  /\ cleanupLog' = CleanupOrder(lifecycles, Len(lifecycles))
  /\ cleanupErrs' = CleanupErrors(lifecycles, Len(lifecycles), failing)
  /\ nCleanup' = nCleanup + 1
  /\ lifecycles' = << >>
  /\ UNCHANGED <<services, singletons, middlewares, processors, nextId,
                 resolver, nRegister, nResolve, lastErr, regErrs, earlyReg,
                 singleRet, factoryCalls, initLog, mu, thread, access,
                 dispatched, mutex, errors, caller, addLog, joined>>

Cleanup(failing) ==
  /\ cleanupLog' = CleanupOrder(lifecycles, Len(lifecycles))
  /\ cleanupErrs' = CleanupErrors(lifecycles, Len(lifecycles), failing)
  /\ nCleanup' = nCleanup + 1
  /\ UNCHANGED <<services, singletons, lifecycles, middlewares, processors,
                 nextId, resolver, nRegister, nResolve, lastErr, regErrs,
                 earlyReg, singleRet, factoryCalls, initLog, mu, thread,
                 access, dispatched, mutex, errors, caller, addLog, joined>>

(***************************************************************************)
(* ResolveName (container_resolve.go), one action per stretch of code      *)
(* between two accesses to the shared container.                           *)
(***************************************************************************)
NoKey == [t |-> "nil", n |-> sEmpty]
NoRes == [ok |-> FALSE, inst |-> NoInst, err |-> ""]
NoCount == [f |-> 0, m |-> 0, i |-> 0]

Idle ==
  [pc |-> "idle", key |-> NoKey, service |-> NoReg, cur |-> NoInst,
   mws |-> << >>, res |-> NoRes, base |-> 0, made |-> NoInst, n |-> NoCount,
   mwLog |-> << >>]

AddCount(a, b) == [f |-> a.f + b.f, m |-> a.m + b.m, i |-> a.i + b.i]

Success(r, inst) == [r EXCEPT !.pc = "done", !.res = [ok |-> TRUE, inst |-> inst, err |-> ""]]
Failure(r, err) == [r EXCEPT !.pc = "done", !.res = [ok |-> FALSE, inst |-> NoInst, err |-> err]]

\* the caller enters ResolveName[T](ctx, sc, name) with k = (typeKey[T](), name)
Begin(p, k) ==
  /\ resolver[p].pc = "idle"
  /\ resolver' = [resolver EXCEPT ![p] = [Idle EXCEPT !.pc = "lookupType", !.key = k,
                                                  !.base = nextId]]
  /\ nResolve' = nResolve + 1
  /\ UNCHANGED <<services, singletons, lifecycles, middlewares, processors,
                 nextId, nRegister, nCleanup, lastErr, regErrs, earlyReg,
                 singleRet, factoryCalls, initLog, cleanupLog, cleanupErrs,
                 mu, thread, access, dispatched, mutex, errors, caller,
                 addLog, joined>>

\* lines 33-39: serviceMaps, exists := sc.services[key]
LookupType(p) ==
  LET r == resolver[p]
  IN /\ r.pc = "lookupType"
     /\ resolver' = [resolver EXCEPT ![p] =
                       IF TypeRegistered(r.key.t)
                       THEN [r EXCEPT !.pc = "lookupName"]
                       ELSE Failure(r, "notfound")]
     /\ UNCHANGED <<services, singletons, lifecycles, middlewares,
                    processors, nextId, nRegister, nResolve, nCleanup,
                    lastErr, regErrs, earlyReg, singleRet, factoryCalls,
                    initLog, cleanupLog, cleanupErrs, mu, thread, access,
                    dispatched, mutex, errors, caller, addLog, joined>>

\* lines 41-46: service, exists := serviceMaps[name]
LookupName(p) ==
  LET r == resolver[p]
      service == Lookup(r.key)
  IN /\ r.pc = "lookupName"
     /\ resolver' = [resolver EXCEPT ![p] =
                       IF service = NoReg THEN Failure(r, "notfound")
                       ELSE [r EXCEPT !.service = service,
                                      !.pc = IF service.IsSingleton
                                             THEN "check" ELSE "factory"]]
     /\ UNCHANGED <<services, singletons, lifecycles, middlewares,
                    processors, nextId, nRegister, nResolve, nCleanup,
                    lastErr, regErrs, earlyReg, singleRet, factoryCalls,
                    initLog, cleanupLog, cleanupErrs, mu, thread, access,
                    dispatched, mutex, errors, caller, addLog, joined>>

\* a check of the cache that never finds the entry
CacheMiss(r) == FALSE

\* a look into sc.singletons[key][name]: the stored instance, cast to T
CacheHit(r) == Cached(singletons, r.key) # NoInst

\* a cache hit that goes on to the factory of the Registration
RefreshFromFactory(r) == [r EXCEPT !.pc = "factory"]

FromCache(r) ==
  IF Satisfies(Cached(singletons, r.key), r.key.t)
  THEN Success(r, Cached(singletons, r.key))
  ELSE Failure(r, "cast")

\* lines 46-58: the check of the cache under the read lock
CheckCache(p) ==
  LET r == resolver[p]
  IN /\ r.pc = "check"
     /\ resolver' = [resolver EXCEPT ![p] =
                       IF CacheHit(r) THEN FromCache(r)
                       ELSE [r EXCEPT !.pc = "recheck"]]
     /\ UNCHANGED <<services, singletons, lifecycles, middlewares,
                    processors, nextId, nRegister, nResolve, nCleanup,
                    lastErr, regErrs, earlyReg, singleRet, factoryCalls,
                    initLog, cleanupLog, cleanupErrs, mu, thread, access,
                    dispatched, mutex, errors, caller, addLog, joined>>

\* lines 60-68: the second check of the cache
RecheckCache(p) ==
  LET r == resolver[p]
  IN /\ r.pc = "recheck"
     /\ resolver' = [resolver EXCEPT ![p] =
                       IF CacheHit(r) THEN FromCache(r)
                       ELSE [r EXCEPT !.pc = "factory"]]
     /\ UNCHANGED <<services, singletons, lifecycles, middlewares,
                    processors, nextId, nRegister, nResolve, nCleanup,
                    lastErr, regErrs, earlyReg, singleRet, factoryCalls,
                    initLog, cleanupLog, cleanupErrs, mu, thread, access,
                    dispatched, mutex, errors, caller, addLog, joined>>

\* a ResolveName that takes the factory's result without the check
NoTypeCheck(r, val) == TRUE

\* lines 76-79: _, ok := singleton.(T)
FactoryResultOk(r, val) == Satisfies(val, r.key.t)

\* lines 71-79: the factory call and the check of its result against T
InvokeFactory(p, initOk) ==
  LET r == resolver[p]
      a == CallFactory(r.service.Factory, World(singletons, lifecycles, nextId, initLog), initOk)
      r1 == [r EXCEPT !.n = AddCount(@, a.w.n), !.made = a.val]
  IN /\ r.pc = "factory"
     /\ resolver' = [resolver EXCEPT ![p] =
                       IF a.err # "" THEN Failure(r1, a.err)
                       ELSE IF ~FactoryResultOk(r, a.val) THEN Failure(r1, "cast")
                       ELSE [r1 EXCEPT !.cur = a.val, !.pc = "range"]]
     /\ singletons' = a.w.sing
     /\ lifecycles' = a.w.life
     /\ initLog' = a.w.inits
     /\ nextId' = a.w.nid
     /\ factoryCalls' = IF r.service.IsSingleton
                        THEN [factoryCalls EXCEPT ![r.key] = @ + 1]
                        ELSE factoryCalls
     /\ UNCHANGED <<services, middlewares, processors, nRegister, nResolve,
                    nCleanup, lastErr, regErrs, earlyReg, singleRet,
                    cleanupLog, cleanupErrs, mu, thread, access, dispatched,
                    mutex, errors, caller, addLog, joined>>

\* line 81: the range expression sc.middlewares is evaluated once
RangeMiddlewares(p) ==
  LET r == resolver[p]
  IN /\ r.pc = "range"
     /\ resolver' = [resolver EXCEPT ![p] =
                       [r EXCEPT !.mws = middlewares,
                                 !.pc = IF middlewares = << >>
                                        THEN "finish" ELSE "middleware"]]
     /\ UNCHANGED <<services, singletons, lifecycles, middlewares,
                    processors, nextId, nRegister, nResolve, nCleanup,
                    lastErr, regErrs, earlyReg, singleRet, factoryCalls,
                    initLog, cleanupLog, cleanupErrs, mu, thread, access,
                    dispatched, mutex, errors, caller, addLog, joined>>

\* a loop that ranges over the middlewares from the last added to the first
RangeIndexReversed(r) == Len(r.mws) - Len(r.mwLog)

\* a loop that drops the error of Process and goes on with the instance
IgnoreProcessError(r, a) ==
  [r EXCEPT !.cur = IF a.err # "" THEN r.cur ELSE a.val,
            !.pc = IF Len(r.mwLog) = Len(r.mws) THEN "finish" ELSE "middleware"]

\* the position in the ranged slice of the middleware the loop calls next
RangeIndex(r) == Len(r.mwLog) + 1

\* lines 82-85: what the loop does with the result a of Process
AfterProcess(r, a) ==
  IF a.err # "" THEN Failure(r, "middleware")
  ELSE [r EXCEPT !.cur = a.val,
                 !.pc = IF Len(r.mwLog) = Len(r.mws) THEN "finish" ELSE "middleware"]

\* lines 82-85: one iteration of the loop
NextMiddleware(p) ==
  LET r == resolver[p]
      idx == RangeIndex(r)
      a == Process(r.mws[idx], r.cur, World(singletons, lifecycles, nextId, initLog))
      r1 == [r EXCEPT !.n = AddCount(@, a.w.n),
                      !.mwLog = Append(@, [idx |-> idx, mw |-> r.mws[idx],
                                           in |-> r.cur.id, out |-> a.val.id,
                                           err |-> a.err # ""])]
  IN /\ r.pc = "middleware"
     /\ resolver' = [resolver EXCEPT ![p] = AfterProcess(r1, a)]
     /\ nextId' = a.w.nid
     /\ UNCHANGED <<services, singletons, lifecycles, middlewares,
                    processors, nRegister, nResolve, nCleanup, lastErr,
                    regErrs, earlyReg, singleRet, factoryCalls, initLog,
                    cleanupLog, cleanupErrs, mu, thread, access, dispatched,
                    mutex, errors, caller, addLog, joined>>

\* lines 88-107: under the write lock, runLifecycle, the store into the
\* cache, and the cast of the result
Finish(p, initOk) ==
  LET r == resolver[p]
      a == runLifecycle(r.cur, World(singletons, lifecycles, nextId, initLog), initOk)
      r1 == [r EXCEPT !.n = AddCount(@, a.w.n)]
      stored == a.err = "" /\ r.service.IsSingleton
  IN /\ r.pc = "finish"
     /\ lifecycles' = a.w.life
     /\ initLog' = a.w.inits
     /\ singletons' = IF stored THEN StoreSingleton(singletons, r.key, r.cur)
                      ELSE singletons
     /\ resolver' = [resolver EXCEPT ![p] =
                       IF a.err # "" THEN Failure(r1, a.err)
                       ELSE IF ~Satisfies(r.cur, r.key.t) THEN Failure(r1, "panic")
                       ELSE Success(r1, r.cur)]
     /\ UNCHANGED <<services, middlewares, processors, nextId, nRegister,
                    nResolve, nCleanup, lastErr, regErrs, earlyReg,
                    singleRet, factoryCalls, cleanupLog, cleanupErrs, mu,
                    thread, access, dispatched, mutex, errors, caller,
                    addLog, joined>>

\* the caller has the result
Return(p) ==
  LET r == resolver[p]
  IN /\ r.pc = "done"
     /\ resolver' = [resolver EXCEPT ![p] = Idle]
     /\ singleRet' = IF r.res.ok /\ r.service.IsSingleton
                    THEN [singleRet EXCEPT ![r.key] = @ \cup {r.res.inst.id}]
                    ELSE singleRet
     /\ UNCHANGED <<services, singletons, lifecycles, middlewares,
                    processors, nextId, nRegister, nResolve, nCleanup,
                    lastErr, regErrs, earlyReg, factoryCalls, initLog,
                    cleanupLog, cleanupErrs, mu, thread, access, dispatched,
                    mutex, errors, caller, addLog, joined>>

(***************************************************************************)
(* The calls the application makes.                                        *)
(***************************************************************************)
RegCall(ty, opts) == [ty |-> ty, opts |-> opts]

RegCalls ==
  { RegCall("Logger", << >>),
    RegCall("Logger", <<AsSingleton>>),
    RegCall("Logger", <<AsFactory("Logger", "err")>>),
    RegCall("Db", <<WithName("IDb", sCache)>>),
    RegCall("Db", <<AsSingleton, With("IDb"), WithName("IDb", sCache)>>),
    RegCall("Db", <<WithInstance("Db"), With("IDb")>>),
    RegCall("Agent", <<AsSingleton>>),
    RegCall("Cfg", << >>),
    RegCall("Mixed", << >>) }

ResolveKeys ==
  {Key(t, sEmpty) : t \in TypeKeys \ {"Worker", "Named"}} \cup {Key("IDb", sCache)}

\* no tag value has been handed to processField
NoDispatch == [value |-> sEmpty, handler |-> 0, kind |-> "nil", err |-> ""]

\* sc.mu unlocked, and a goroutine that is in no call
NoLock == [w |-> 0, r |-> {}]

NoCall == [ty |-> "nil", opts |-> << >>]

IdleThread ==
  [op |-> "none", pc |-> "idle", key |-> NoKey, call |-> NoCall,
   options |-> NoReg, todo |-> << >>, service |-> NoReg, cur |-> NoInst,
   mws |-> << >>, mi |-> 0, arg |-> "nil", res |-> NoRes, nested |-> "none"]

\* NewServiceContainer
Init ==
  /\ services = [k \in Keys |-> NoReg]
  /\ singletons = [k \in Keys |-> NoInst]
  /\ lifecycles = << >>
  /\ middlewares = << >>
  /\ processors \in registerProcessor(<< >>, InjectTagProcessor)
  /\ nextId = 1
  /\ resolver = [p \in Procs |-> Idle]
  /\ nRegister = 0
  /\ nResolve = 0
  /\ nCleanup = 0
  /\ lastErr = FALSE
  /\ regErrs = << >>
  /\ earlyReg = {}
  /\ singleRet = [k \in Keys |-> {}]
  /\ factoryCalls = [k \in Keys |-> 0]
  /\ initLog = << >>
  /\ cleanupLog = << >>
  /\ cleanupErrs = << >>
  /\ mu = NoLock
  /\ thread = [p \in Procs |-> IdleThread]
  /\ access = {}
  /\ dispatched = NoDispatch
  /\ mutex = 0
  /\ errors = << >>
  /\ caller = [p \in Procs |-> IdleCaller]
  /\ addLog = << >>
  /\ joined = NoJoin

AllIdle == \A p \in Procs : resolver[p].pc = "idle"

(***************************************************************************)
(* Spec: one caller; no call starts before the previous one has returned.  *)
(***************************************************************************)
Next ==
  \/ /\ AllIdle
     /\ nCleanup = 0
     /\ nRegister < MaxRegister
     /\ \E c \in RegCalls : Register(c.ty, c.opts)
  \/ /\ AllIdle
     /\ nCleanup = 0
     /\ Len(middlewares) < MaxMiddleware
     /\ \E mw \in MiddlewareKinds : AddMiddleware(mw)
  \/ /\ AllIdle
     /\ nCleanup = 0
     /\ Len(processors) < 1 + MaxTagProcessor
     /\ AddTagProcessor(ConfigTagProcessor)
  \/ /\ AllIdle
     /\ nCleanup < MaxCleanup
     /\ \E failing \in SUBSET (1..Len(lifecycles)) : Cleanup(failing)
  \/ /\ nCleanup = 0
     /\ nResolve < MaxResolve
     /\ \E k \in ResolveKeys : Begin(1, k)
  \/ LookupType(1)
  \/ LookupName(1)
  \/ CheckCache(1)
  \/ RecheckCache(1)
  \/ \E initOk \in BOOLEAN : InvokeFactory(1, initOk)
  \/ RangeMiddlewares(1)
  \/ NextMiddleware(1)
  \/ \E initOk \in BOOLEAN : Finish(1, initOk)
  \/ Return(1)

Spec == Init /\ [][Next]_vars

(***************************************************************************)
(* SpecConc: two goroutines call ResolveName for a singleton while the     *)
(* application registers it and adds a middleware.  The steps of the two   *)
(* calls interleave at the points where ResolveName takes or releases      *)
(* sc.mu.  The factory, the middlewares and the (absent) Init of this      *)
(* service never fail.                                                     *)
(***************************************************************************)
RegCallsConc == { RegCall("Logger", <<AsSingleton>>) }

ResolveKeysConc == { Key("Logger", sEmpty) }

MiddlewareKindsConc == {"pass", "wrap"}

NextConc ==
  \/ /\ nRegister < MaxRegisterConc
     /\ \E c \in RegCallsConc : Register(c.ty, c.opts)
  \/ /\ Len(middlewares) < MaxMiddlewareConc
     /\ \E mw \in MiddlewareKindsConc : AddMiddleware(mw)
  \/ /\ nResolve < MaxResolveConc
     /\ \E p \in Procs : \E k \in ResolveKeysConc : Begin(p, k)
  \/ \E p \in Procs : LookupType(p)
  \/ \E p \in Procs : LookupName(p)
  \/ \E p \in Procs : CheckCache(p)
  \/ \E p \in Procs : RecheckCache(p)
  \/ \E p \in Procs : \E initOk \in BOOLEAN : InvokeFactory(p, initOk)
  \/ \E p \in Procs : RangeMiddlewares(p)
  \/ \E p \in Procs : NextMiddleware(p)
  \/ \E p \in Procs : \E initOk \in BOOLEAN : Finish(p, initOk)
  \/ \E p \in Procs : Return(p)

SpecConc == Init /\ [][NextConc]_vars

(***************************************************************************)
(* SpecLife: one caller resolves services that implement LifecycleService  *)
(* and then tears the container down.                                      *)
(***************************************************************************)
RegCallsLife ==
  { RegCall("Db", <<With("IDb")>>),
    RegCall("Db", <<AsSingleton, With("IDb")>>) }

ResolveKeysLife == { Key("Db", sEmpty), Key("IDb", sEmpty) }

NextLife ==
  \/ /\ AllIdle
     /\ nCleanup = 0
     /\ nRegister < MaxRegisterLife
     /\ \E c \in RegCallsLife : Register(c.ty, c.opts)
  \/ /\ AllIdle
     /\ nCleanup = 0
     /\ Len(middlewares) < MaxMiddlewareLife
     /\ \E mw \in MiddlewareKinds : AddMiddleware(mw)
  \/ /\ AllIdle
     /\ nCleanup < MaxCleanup
     /\ \E failing \in SUBSET (1..Len(lifecycles)) : Cleanup(failing)
  \/ /\ nCleanup = 0
     /\ nResolve < MaxResolveLife
     /\ \E k \in ResolveKeysLife : Begin(1, k)
  \/ LookupType(1)
  \/ LookupName(1)
  \/ CheckCache(1)
  \/ RecheckCache(1)
  \/ \E initOk \in BOOLEAN : InvokeFactory(1, initOk)
  \/ RangeMiddlewares(1)
  \/ NextMiddleware(1)
  \/ \E initOk \in BOOLEAN : Finish(1, initOk)
  \/ Return(1)

SpecLife == Init /\ [][NextLife]_vars

(***************************************************************************)
(* SpecTag: one caller registers struct types with tagged fields and the   *)
(* services the fields name, in any order, and resolves them.              *)
(***************************************************************************)
RegCallsTag ==
  { RegCall("Agent", << >>),
    RegCall("Worker", << >>),
    RegCall("Logger", << >>),
    RegCall("Db", <<WithInstance("Db"), With("IDb")>>),
    RegCall("Db", <<AsSingleton, WithName("IDb", sCache)>>) }

ResolveKeysTag ==
  { Key("Agent", sEmpty), Key("Worker", sEmpty),
    Key("IDb", sEmpty), Key("IDb", sCache) }

NextTag ==
  \/ /\ AllIdle
     /\ nRegister < MaxRegisterTag
     /\ \E c \in RegCallsTag : Register(c.ty, c.opts)
  \/ /\ AllIdle
     /\ Len(middlewares) < MaxMiddlewareTag
     /\ \E mw \in MiddlewareKinds : AddMiddleware(mw)
  \/ /\ nResolve < MaxResolveTag
     /\ \E k \in ResolveKeysTag : Begin(1, k)
  \/ LookupType(1)
  \/ LookupName(1)
  \/ CheckCache(1)
  \/ RecheckCache(1)
  \/ \E initOk \in BOOLEAN : InvokeFactory(1, initOk)
  \/ RangeMiddlewares(1)
  \/ NextMiddleware(1)
  \/ \E initOk \in BOOLEAN : Finish(1, initOk)
  \/ Return(1)

SpecTag == Init /\ [][NextTag]_vars

(***************************************************************************)
(* SpecType: one caller resolves singletons whose factory or middlewares   *)
(* hand back an instance of another type than the one asked for.           *)
(***************************************************************************)
RegCallsType ==
  { RegCall("Logger", <<AsSingleton>>),
    RegCall("Logger", <<AsSingleton, AsFactory("Logger", "wrong")>>),
    RegCall("Db", <<AsSingleton, With("IDb")>>) }

ResolveKeysType ==
  { Key("Logger", sEmpty), Key("Db", sEmpty), Key("IDb", sEmpty) }

MiddlewareKindsType == {"pass", "swap", "fail"}

NextType ==
  \/ /\ AllIdle
     /\ nRegister < MaxRegisterType
     /\ \E c \in RegCallsType : Register(c.ty, c.opts)
  \/ /\ AllIdle
     /\ Len(middlewares) < MaxMiddlewareType
     /\ \E mw \in MiddlewareKindsType : AddMiddleware(mw)
  \/ /\ nResolve < MaxResolveType
     /\ \E k \in ResolveKeysType : Begin(1, k)
  \/ LookupType(1)
  \/ LookupName(1)
  \/ CheckCache(1)
  \/ RecheckCache(1)
  \/ \E initOk \in BOOLEAN : InvokeFactory(1, initOk)
  \/ RangeMiddlewares(1)
  \/ NextMiddleware(1)
  \/ \E initOk \in BOOLEAN : Finish(1, initOk)
  \/ Return(1)

SpecType == Init /\ [][NextType]_vars

(***************************************************************************)
(* SpecOpt: one caller registers services with options that fail, with     *)
(* supplied factories on struct types with tagged fields, and with struct  *)
(* types whose only tag is inject:<name>, and resolves them.               *)
(***************************************************************************)
RegCallsOpt ==
  { RegCall("Logger", <<FailingOption>>),
    RegCall("Logger", <<FailingOption, AsSingleton, FailingOption>>),
    RegCall("Db", <<With("IDb"), FailingOption>>),
    RegCall("Db", <<AsSingleton, With("IDb"), WithName("IDb", sCache)>>),
    RegCall("Agent", << >>),
    RegCall("Agent", <<AsFactory("Agent", "ok")>>),
    RegCall("Mixed", << >>),
    RegCall("Mixed", <<AsFactory("Mixed", "ok"), WithInstance("Mixed")>>),
    RegCall("Named", << >>) }

ResolveKeysOpt ==
  { Key("Logger", sEmpty), Key("IDb", sEmpty), Key("Agent", sEmpty),
    Key("Mixed", sEmpty), Key("Named", sEmpty) }

MiddlewareKindsOpt == {"pass"}

NextOpt ==
  \/ /\ AllIdle
     /\ nRegister < MaxRegisterOpt
     /\ \E c \in RegCallsOpt : Register(c.ty, c.opts)
  \/ /\ AllIdle
     /\ Len(middlewares) < MaxMiddlewareOpt
     /\ \E mw \in MiddlewareKindsOpt : AddMiddleware(mw)
  \/ /\ nResolve < MaxResolveOpt
     /\ \E k \in ResolveKeysOpt : Begin(1, k)
  \/ LookupType(1)
  \/ LookupName(1)
  \/ CheckCache(1)
  \/ RecheckCache(1)
  \/ \E initOk \in BOOLEAN : InvokeFactory(1, initOk)
  \/ RangeMiddlewares(1)
  \/ NextMiddleware(1)
  \/ \E initOk \in BOOLEAN : Finish(1, initOk)
  \/ Return(1)

SpecOpt == Init /\ [][NextOpt]_vars

(***************************************************************************)
(* The container lock sc.mu (sync.RWMutex) and the calls at the grain of   *)
(* its acquisitions: one action per stretch of code of Register,           *)
(* AddMiddleware, AddTagProcessor and ResolveName between two operations   *)
(* on sc.mu, with the call and the return of the application's factory,    *)
(* middlewares and Init as steps of their own.  mu.w is the goroutine that *)
(* holds the lock exclusively (0: none), mu.r the goroutines that hold it  *)
(* shared; thread is each goroutine's position; access lists the reads and *)
(* writes of the container's fields made by the last step, each with the   *)
(* way the goroutine held the lock.                                        *)
(***************************************************************************)
\* how goroutine p holds sc.mu
Held(p) ==
  IF mu.w = p THEN "exclusive" ELSE IF p \in mu.r THEN "shared" ELSE "none"

Access(p, res, op) == [p |-> p, res |-> res, op |-> op, held |-> Held(p)]

\* sc.mu.Lock() and sc.mu.RLock() return
CanLock == mu.w = 0 /\ mu.r = {}
CanRLock == mu.w = 0

\* the Go runtime has stopped the process (fatal error: concurrent map
\* read and map write)
Crashed == \E p \in Procs : thread[p].pc = "fatal"

At(p, pc) == ~Crashed /\ thread[p].pc = pc

\* the capability keys in the order Register inserts them (one interface
\* type: the names in the order of the options)
CapabilityInserts(options) ==
  [j \in 1..Len(options.Interfaces["IDb"]) |-> Key("IDb", options.Interfaces["IDb"][j])]

\* part_001 lines 47-49
RegisterLock(p, c) ==
  /\ At(p, "idle")
  /\ CanLock
  /\ mu' = [mu EXCEPT !.w = p]
  /\ thread' = [thread EXCEPT ![p] =
                  [IdleThread EXCEPT !.op = "Register", !.pc = "options", !.call = c]]
  /\ nRegister' = nRegister + 1
  /\ access' = {}
  /\ UNCHANGED <<services, singletons, lifecycles, middlewares, processors,
                 nextId, resolver, nResolve, nCleanup, lastErr, regErrs,
                 earlyReg, singleRet, factoryCalls, initLog, cleanupLog,
                 cleanupErrs, dispatched, mutex, errors, caller, addLog,
                 joined>>

\* part_001 lines 51-91
RegisterOptions(p) ==
  LET t == thread[p]
      applied == ApplyOptions(defaultRegistrationOptions, t.call.opts, nextId)
      failed == RegisterFails(t.call.ty, applied)
      options == [applied.rs EXCEPT !.Factory = FactoryOrSynthesized(t.call.ty, applied.rs)]
  IN /\ At(p, "options")
     /\ thread' = [thread EXCEPT ![p] =
                     IF failed
                     THEN [t EXCEPT !.pc = "unlock",
                                    !.res = [ok |-> FALSE, inst |-> NoInst, err |-> "register"]]
                     ELSE [t EXCEPT !.pc = "concrete", !.options = options]]
     /\ access' = IF applied.rs.Factory = NoFactory /\ hasFabricTags(t.call.ty)
                  THEN {Access(p, "processors", "r")} ELSE {}
     /\ UNCHANGED <<services, singletons, lifecycles, middlewares,
                    processors, nextId, resolver, nRegister, nResolve,
                    nCleanup, lastErr, regErrs, earlyReg, singleRet,
                    factoryCalls, initLog, cleanupLog, cleanupErrs, mu,
                    dispatched, mutex, errors, caller, addLog, joined>>

\* part_001 lines 93-100
RegisterConcrete(p) ==
  LET t == thread[p]
  IN /\ At(p, "concrete")
     /\ services' = [services EXCEPT ![Key(t.call.ty, t.options.Name)] = t.options]
     /\ thread' = [thread EXCEPT ![p] =
                     [t EXCEPT !.pc = "interfaces",
                               !.todo = CapabilityInserts(t.options)]]
     /\ access' = {Access(p, "services", "r"), Access(p, "services", "w")}
     /\ UNCHANGED <<singletons, lifecycles, middlewares, processors, nextId,
                    resolver, nRegister, nResolve, nCleanup, lastErr,
                    regErrs, earlyReg, singleRet, factoryCalls, initLog,
                    cleanupLog, cleanupErrs, mu, dispatched, mutex, errors,
                    caller, addLog, joined>>

\* part_001 lines 103-113, one iteration
RegisterInterface(p) ==
  LET t == thread[p]
  IN /\ At(p, "interfaces")
     /\ t.todo # << >>
     /\ services' = [services EXCEPT ![Head(t.todo)] = t.options]
     /\ thread' = [thread EXCEPT ![p] = [t EXCEPT !.todo = Tail(t.todo)]]
     /\ access' = {Access(p, "services", "r"), Access(p, "services", "w")}
     /\ UNCHANGED <<singletons, lifecycles, middlewares, processors, nextId,
                    resolver, nRegister, nResolve, nCleanup, lastErr,
                    regErrs, earlyReg, singleRet, factoryCalls, initLog,
                    cleanupLog, cleanupErrs, mu, dispatched, mutex, errors,
                    caller, addLog, joined>>

\* part_001 lines 49, 115: the deferred Unlock
RegisterUnlock(p) ==
  LET t == thread[p]
  IN /\ \/ At(p, "unlock") /\ t.op = "Register"
        \/ At(p, "interfaces") /\ t.todo = << >>
     /\ mu' = [mu EXCEPT !.w = 0]
     /\ lastErr' = (t.res.err # "")
     /\ thread' = [thread EXCEPT ![p] = IdleThread]
     /\ access' = {}
     /\ UNCHANGED <<services, singletons, lifecycles, middlewares,
                    processors, nextId, resolver, nRegister, nResolve,
                    nCleanup, regErrs, earlyReg, singleRet, factoryCalls,
                    initLog, cleanupLog, cleanupErrs, dispatched, mutex,
                    errors, caller, addLog, joined>>

\* container.go line 173
AddMiddlewareLock(p, mw) ==
  /\ At(p, "idle")
  /\ CanLock
  /\ mu' = [mu EXCEPT !.w = p]
  /\ thread' = [thread EXCEPT ![p] =
                  [IdleThread EXCEPT !.op = "AddMiddleware", !.pc = "append", !.arg = mw]]
  /\ access' = {}
  /\ UNCHANGED <<services, singletons, lifecycles, middlewares, processors,
                 nextId, resolver, nRegister, nResolve, nCleanup, lastErr,
                 regErrs, earlyReg, singleRet, factoryCalls, initLog,
                 cleanupLog, cleanupErrs, dispatched, mutex, errors, caller,
                 addLog, joined>>

\* container.go lines 174-175
AddMiddlewareAppend(p) ==
  /\ At(p, "append")
  /\ thread[p].op = "AddMiddleware"
  /\ middlewares' = Append(middlewares, thread[p].arg)
  /\ mu' = [mu EXCEPT !.w = 0]
  /\ thread' = [thread EXCEPT ![p] = IdleThread]
  /\ access' = {Access(p, "middlewares", "r"), Access(p, "middlewares", "w")}
  /\ UNCHANGED <<services, singletons, lifecycles, processors, nextId,
                 resolver, nRegister, nResolve, nCleanup, lastErr, regErrs,
                 earlyReg, singleRet, factoryCalls, initLog, cleanupLog,
                 cleanupErrs, dispatched, mutex, errors, caller, addLog,
                 joined>>

\* container.go line 189
AddTagProcessorLock(p) ==
  /\ At(p, "idle")
  /\ CanLock
  /\ mu' = [mu EXCEPT !.w = p]
  /\ thread' = [thread EXCEPT ![p] =
                  [IdleThread EXCEPT !.op = "AddTagProcessor", !.pc = "append"]]
  /\ access' = {}
  /\ UNCHANGED <<services, singletons, lifecycles, middlewares, processors,
                 nextId, resolver, nRegister, nResolve, nCleanup, lastErr,
                 regErrs, earlyReg, singleRet, factoryCalls, initLog,
                 cleanupLog, cleanupErrs, dispatched, mutex, errors, caller,
                 addLog, joined>>

\* container.go lines 190-191
AddTagProcessorAppend(p) ==
  /\ At(p, "append")
  /\ thread[p].op = "AddTagProcessor"
  /\ processors' \in registerProcessor(processors, ConfigTagProcessor)
  /\ mu' = [mu EXCEPT !.w = 0]
  /\ thread' = [thread EXCEPT ![p] = IdleThread]
  /\ access' = {Access(p, "processors", "r"), Access(p, "processors", "w")}
  /\ UNCHANGED <<services, singletons, lifecycles, middlewares, nextId,
                 resolver, nRegister, nResolve, nCleanup, lastErr, regErrs,
                 earlyReg, singleRet, factoryCalls, initLog, cleanupLog,
                 cleanupErrs, dispatched, mutex, errors, caller, addLog,
                 joined>>

ThreadReturns(t, inst, err) ==
  [t EXCEPT !.res = [ok |-> err = "", inst |-> inst, err |-> err]]

\* container_resolve.go lines 29-33
ResolveRLock(p, k) ==
  /\ At(p, "idle")
  /\ CanRLock
  /\ mu' = [mu EXCEPT !.r = @ \cup {p}]
  /\ thread' = [thread EXCEPT ![p] =
                  [IdleThread EXCEPT !.op = "ResolveName", !.pc = "services", !.key = k]]
  /\ nResolve' = nResolve + 1
  /\ access' = {}
  /\ UNCHANGED <<services, singletons, lifecycles, middlewares, processors,
                 nextId, resolver, nRegister, nCleanup, lastErr, regErrs,
                 earlyReg, singleRet, factoryCalls, initLog, cleanupLog,
                 cleanupErrs, dispatched, mutex, errors, caller, addLog,
                 joined>>

\* container_resolve.go lines 34-39
ResolveServices(p) ==
  LET t == thread[p]
  IN /\ At(p, "services")
     /\ mu' = [mu EXCEPT !.r = @ \ {p}]
     /\ thread' = [thread EXCEPT ![p] =
                     IF TypeRegistered(t.key.t) THEN [t EXCEPT !.pc = "name"]
                     ELSE [ThreadReturns(t, NoInst, "notfound") EXCEPT !.pc = "return"]]
     /\ access' = {Access(p, "services", "r")}
     /\ UNCHANGED <<services, singletons, lifecycles, middlewares,
                    processors, nextId, resolver, nRegister, nResolve,
                    nCleanup, lastErr, regErrs, earlyReg, singleRet,
                    factoryCalls, initLog, cleanupLog, cleanupErrs,
                    dispatched, mutex, errors, caller, addLog, joined>>

\* container_resolve.go lines 41-46: the read of the inner map
ResolveServiceName(p) ==
  LET t == thread[p]
      service == Lookup(t.key)
  IN /\ At(p, "name")
     /\ thread' = [thread EXCEPT ![p] =
                     IF service = NoReg
                     THEN [ThreadReturns(t, NoInst, "notfound") EXCEPT !.pc = "return"]
                     ELSE [t EXCEPT !.service = service,
                                    !.pc = IF service.IsSingleton THEN "rlock"
                                           ELSE "factory"]]
     /\ access' = {Access(p, "services", "r")}
     /\ UNCHANGED <<services, singletons, lifecycles, middlewares,
                    processors, nextId, resolver, nRegister, nResolve,
                    nCleanup, lastErr, regErrs, earlyReg, singleRet,
                    factoryCalls, initLog, cleanupLog, cleanupErrs, mu,
                    dispatched, mutex, errors, caller, addLog, joined>>

\* container_resolve.go line 47
ResolveCacheRLock(p) ==
  /\ At(p, "rlock")
  /\ CanRLock
  /\ mu' = [mu EXCEPT !.r = @ \cup {p}]
  /\ thread' = [thread EXCEPT ![p].pc = "cache"]
  /\ access' = {}
  /\ UNCHANGED <<services, singletons, lifecycles, middlewares, processors,
                 nextId, resolver, nRegister, nResolve, nCleanup, lastErr,
                 regErrs, earlyReg, singleRet, factoryCalls, initLog,
                 cleanupLog, cleanupErrs, dispatched, mutex, errors, caller,
                 addLog, joined>>

\* sc.singletons[key] exists: the inner map is made with its first entry
TypeCached(ty) == \E k \in Keys : k.t = ty /\ singletons[k] # NoInst

\* container_resolve.go lines 48-51
ResolveCacheType(p) ==
  LET t == thread[p]
  IN /\ At(p, "cache")
     /\ mu' = [mu EXCEPT !.r = @ \ {p}]
     /\ thread' = [thread EXCEPT ![p].pc =
                     IF TypeCached(t.key.t) THEN "entry" ELSE "recheck"]
     /\ access' = {Access(p, "singletons", "r")}
     /\ UNCHANGED <<services, singletons, lifecycles, middlewares,
                    processors, nextId, resolver, nRegister, nResolve,
                    nCleanup, lastErr, regErrs, earlyReg, singleRet,
                    factoryCalls, initLog, cleanupLog, cleanupErrs,
                    dispatched, mutex, errors, caller, addLog, joined>>

\* the return of a cached singleton, lines 53-56 and 62-65
ThreadFromCache(t) ==
  IF Satisfies(Cached(singletons, t.key), t.key.t)
  THEN [ThreadReturns(t, Cached(singletons, t.key), "") EXCEPT !.pc = "return"]
  ELSE [ThreadReturns(t, NoInst, "cast") EXCEPT !.pc = "return"]

\* container_resolve.go lines 52-57: the read of the inner map
ResolveCacheEntry(p) ==
  LET t == thread[p]
  IN /\ At(p, "entry")
     /\ thread' = [thread EXCEPT ![p] =
                     IF Cached(singletons, t.key) # NoInst THEN ThreadFromCache(t)
                     ELSE [t EXCEPT !.pc = "recheck"]]
     /\ access' = {Access(p, "singletons", "r")}
     /\ UNCHANGED <<services, singletons, lifecycles, middlewares,
                    processors, nextId, resolver, nRegister, nResolve,
                    nCleanup, lastErr, regErrs, earlyReg, singleRet,
                    factoryCalls, initLog, cleanupLog, cleanupErrs, mu,
                    dispatched, mutex, errors, caller, addLog, joined>>

\* container_resolve.go lines 60-68
ResolveRecheck(p) ==
  LET t == thread[p]
  IN /\ At(p, "recheck")
     /\ thread' = [thread EXCEPT ![p] =
                     IF Cached(singletons, t.key) # NoInst THEN ThreadFromCache(t)
                     ELSE [t EXCEPT !.pc = "factory"]]
     /\ access' = {Access(p, "singletons", "r")}
     /\ UNCHANGED <<services, singletons, lifecycles, middlewares,
                    processors, nextId, resolver, nRegister, nResolve,
                    nCleanup, lastErr, regErrs, earlyReg, singleRet,
                    factoryCalls, initLog, cleanupLog, cleanupErrs, mu,
                    dispatched, mutex, errors, caller, addLog, joined>>

\* the inner map of sc.services or sc.singletons that goroutine q, holding
\* the lock exclusively, is about to write
WritesServices(q, ty) ==
  /\ thread[q].op = "Register"
  /\ \/ thread[q].pc = "concrete" /\ thread[q].call.ty = ty
     \/ /\ thread[q].pc = "interfaces" /\ thread[q].todo # << >>
        /\ Head(thread[q].todo).t = ty

WritesSingletons(q, ty) ==
  /\ thread[q].op = "ResolveName"
  /\ thread[q].pc = "store"
  /\ thread[q].service.IsSingleton
  /\ thread[q].key.t = ty

\* a read of an inner map outside the lock (lines 41, 52, 61) while
\* another goroutine writes the map: besides the old or the new entry,
\* which the actions above read, the runtime may detect the concurrent
\* access and stop the process
RacyMapRead(p) ==
  LET t == thread[p]
  IN /\ \/ At(p, "name") /\ \E q \in Procs \ {p} : WritesServices(q, t.key.t)
        \/ /\ At(p, "entry") \/ At(p, "recheck")
           /\ \E q \in Procs \ {p} : WritesSingletons(q, t.key.t)
     /\ thread' = [thread EXCEPT ![p].pc = "fatal"]
     /\ access' = {Access(p, IF t.pc = "name" THEN "services" ELSE "singletons", "r")}
     /\ UNCHANGED <<services, singletons, lifecycles, middlewares,
                    processors, nextId, resolver, nRegister, nResolve,
                    nCleanup, lastErr, regErrs, earlyReg, singleRet,
                    factoryCalls, initLog, cleanupLog, cleanupErrs, mu,
                    dispatched, mutex, errors, caller, addLog, joined>>

\* the callback that goroutine p is in has called ResolveName on the same
\* container, and the call has not returned
Nesting(p) == thread[p].nested \in {"rlock", "services"}

\* the factory called with the container lock taken and never released
FactoryUnderLock(p) ==
  /\ At(p, "factory")
  /\ CanLock
  /\ mu' = [mu EXCEPT !.w = p]
  /\ thread' = [thread EXCEPT ![p].pc = "inFactory"]
  /\ access' = {}
  /\ UNCHANGED <<services, singletons, lifecycles, middlewares, processors,
                 nextId, resolver, nRegister, nResolve, nCleanup, lastErr,
                 regErrs, earlyReg, singleRet, factoryCalls, initLog,
                 cleanupLog, cleanupErrs, dispatched, mutex, errors, caller,
                 addLog, joined>>

\* container_resolve.go line 71: the factory is called
ResolveFactoryCall(p) ==
  /\ At(p, "factory")
  /\ thread' = [thread EXCEPT ![p].pc = "inFactory"]
  /\ access' = {}
  /\ UNCHANGED <<services, singletons, lifecycles, middlewares, processors,
                 nextId, resolver, nRegister, nResolve, nCleanup, lastErr,
                 regErrs, earlyReg, singleRet, factoryCalls, initLog,
                 cleanupLog, cleanupErrs, mu, dispatched, mutex, errors,
                 caller, addLog, joined>>

\* container_resolve.go lines 71-79: the factory returns
ResolveFactoryReturn(p) ==
  LET t == [thread[p] EXCEPT !.nested = "none"]
      a == CallFactory(t.service.Factory,
                       World(singletons, lifecycles, nextId, initLog), TRUE)
  IN /\ At(p, "inFactory")
     /\ ~Nesting(p)
     /\ nextId' = a.w.nid
     /\ thread' = [thread EXCEPT ![p] =
                     IF a.err # ""
                     THEN [ThreadReturns(t, NoInst, a.err) EXCEPT !.pc = "return"]
                     ELSE IF ~FactoryResultOk(t, a.val)
                     THEN [ThreadReturns(t, NoInst, "cast") EXCEPT !.pc = "return"]
                     ELSE [t EXCEPT !.cur = a.val, !.pc = "range"]]
     /\ access' = {}
     /\ UNCHANGED <<services, singletons, lifecycles, middlewares,
                    processors, resolver, nRegister, nResolve, nCleanup,
                    lastErr, regErrs, earlyReg, singleRet, factoryCalls,
                    initLog, cleanupLog, cleanupErrs, mu, dispatched, mutex,
                    errors, caller, addLog, joined>>

\* container_resolve.go line 81: the range expression sc.middlewares
ResolveRange(p) ==
  LET t == thread[p]
  IN /\ At(p, "range")
     /\ thread' = [thread EXCEPT ![p] =
                     [t EXCEPT !.mws = middlewares, !.mi = 1,
                               !.pc = IF middlewares = << >> THEN "lock"
                                      ELSE "process"]]
     /\ access' = {Access(p, "middlewares", "r")}
     /\ UNCHANGED <<services, singletons, lifecycles, middlewares,
                    processors, nextId, resolver, nRegister, nResolve,
                    nCleanup, lastErr, regErrs, earlyReg, singleRet,
                    factoryCalls, initLog, cleanupLog, cleanupErrs, mu,
                    dispatched, mutex, errors, caller, addLog, joined>>

\* container_resolve.go line 82: middleware.Process is called
ResolveProcessCall(p) ==
  /\ At(p, "process")
  /\ thread' = [thread EXCEPT ![p].pc = "inProcess"]
  /\ access' = {}
  /\ UNCHANGED <<services, singletons, lifecycles, middlewares, processors,
                 nextId, resolver, nRegister, nResolve, nCleanup, lastErr,
                 regErrs, earlyReg, singleRet, factoryCalls, initLog,
                 cleanupLog, cleanupErrs, mu, dispatched, mutex, errors,
                 caller, addLog, joined>>

\* container_resolve.go lines 82-86: middleware.Process returns
ResolveProcessReturn(p) ==
  LET t == [thread[p] EXCEPT !.nested = "none"]
      b == Process(t.mws[t.mi], t.cur, World(singletons, lifecycles, nextId, initLog))
  IN /\ At(p, "inProcess")
     /\ ~Nesting(p)
     /\ nextId' = b.w.nid
     /\ thread' = [thread EXCEPT ![p] =
                     IF b.err # ""
                     THEN [ThreadReturns(t, NoInst, b.err) EXCEPT !.pc = "return"]
                     ELSE [t EXCEPT !.cur = b.val, !.mi = @ + 1,
                                    !.pc = IF t.mi = Len(t.mws) THEN "lock"
                                           ELSE "process"]]
     /\ access' = {}
     /\ UNCHANGED <<services, singletons, lifecycles, middlewares,
                    processors, resolver, nRegister, nResolve, nCleanup,
                    lastErr, regErrs, earlyReg, singleRet, factoryCalls,
                    initLog, cleanupLog, cleanupErrs, mu, dispatched, mutex,
                    errors, caller, addLog, joined>>

\* container_resolve.go lines 88-89
ResolveLock(p) ==
  /\ At(p, "lock")
  /\ CanLock
  /\ mu' = [mu EXCEPT !.w = p]
  /\ thread' = [thread EXCEPT ![p].pc = "lifecycle"]
  /\ access' = {}
  /\ UNCHANGED <<services, singletons, lifecycles, middlewares, processors,
                 nextId, resolver, nRegister, nResolve, nCleanup, lastErr,
                 regErrs, earlyReg, singleRet, factoryCalls, initLog,
                 cleanupLog, cleanupErrs, dispatched, mutex, errors, caller,
                 addLog, joined>>

\* container_resolve.go line 91, container.go lines 284-285: Init is
\* called on an instance that implements LifecycleService
ResolveInitCall(p) ==
  LET t == thread[p]
  IN /\ At(p, "lifecycle")
     /\ thread' = [thread EXCEPT ![p].pc =
                     IF IsLifecycle(t.cur) THEN "inInit" ELSE "store"]
     /\ access' = {}
     /\ UNCHANGED <<services, singletons, lifecycles, middlewares,
                    processors, nextId, resolver, nRegister, nResolve,
                    nCleanup, lastErr, regErrs, earlyReg, singleRet,
                    factoryCalls, initLog, cleanupLog, cleanupErrs, mu,
                    dispatched, mutex, errors, caller, addLog, joined>>

\* container.go lines 285-288, container_resolve.go lines 91-93: Init
\* returns
ResolveInitReturn(p, initOk) ==
  LET t == [thread[p] EXCEPT !.nested = "none"]
  IN /\ At(p, "inInit")
     /\ ~Nesting(p)
     /\ lifecycles' = IF initOk THEN Append(lifecycles, t.cur) ELSE lifecycles
     /\ initLog' = IF initOk THEN Append(initLog, t.cur.id) ELSE initLog
     /\ thread' = [thread EXCEPT ![p] =
                     IF initOk THEN [t EXCEPT !.pc = "store"]
                     ELSE [ThreadReturns(t, NoInst, "init") EXCEPT !.pc = "unlock"]]
     /\ access' = IF initOk
                  THEN {Access(p, "lifecycles", "r"), Access(p, "lifecycles", "w")}
                  ELSE {}
     /\ UNCHANGED <<services, singletons, middlewares, processors, nextId,
                    resolver, nRegister, nResolve, nCleanup, lastErr,
                    regErrs, earlyReg, singleRet, factoryCalls, cleanupLog,
                    cleanupErrs, mu, dispatched, mutex, errors, caller,
                    addLog, joined>>

\* container_resolve.go lines 94-107
ResolveStore(p) ==
  LET t == thread[p]
  IN /\ At(p, "store")
     /\ singletons' = IF t.service.IsSingleton
                      THEN StoreSingleton(singletons, t.key, t.cur)
                      ELSE singletons
     /\ thread' = [thread EXCEPT ![p] =
                     IF Satisfies(t.cur, t.key.t)
                     THEN [ThreadReturns(t, t.cur, "") EXCEPT !.pc = "unlock"]
                     ELSE [ThreadReturns(t, NoInst, "panic") EXCEPT !.pc = "unlock"]]
     /\ access' = IF t.service.IsSingleton
                  THEN {Access(p, "singletons", "r"), Access(p, "singletons", "w")}
                  ELSE {}
     /\ UNCHANGED <<services, lifecycles, middlewares, processors, nextId,
                    resolver, nRegister, nResolve, nCleanup, lastErr,
                    regErrs, earlyReg, singleRet, factoryCalls, initLog,
                    cleanupLog, cleanupErrs, mu, dispatched, mutex, errors,
                    caller, addLog, joined>>

\* container_resolve.go line 89: the deferred Unlock, and the return
ResolveUnlock(p) ==
  /\ At(p, "unlock")
  /\ thread[p].op = "ResolveName"
  /\ mu' = [mu EXCEPT !.w = 0]
  /\ thread' = [thread EXCEPT ![p] = IdleThread]
  /\ access' = {}
  /\ UNCHANGED <<services, singletons, lifecycles, middlewares, processors,
                 nextId, resolver, nRegister, nResolve, nCleanup, lastErr,
                 regErrs, earlyReg, singleRet, factoryCalls, initLog,
                 cleanupLog, cleanupErrs, dispatched, mutex, errors, caller,
                 addLog, joined>>

\* a return of ResolveName before line 88
ResolveReturn(p) ==
  /\ At(p, "return")
  /\ thread' = [thread EXCEPT ![p] = IdleThread]
  /\ access' = {}
  /\ UNCHANGED <<services, singletons, lifecycles, middlewares, processors,
                 nextId, resolver, nRegister, nResolve, nCleanup, lastErr,
                 regErrs, earlyReg, singleRet, factoryCalls, initLog,
                 cleanupLog, cleanupErrs, mu, dispatched, mutex, errors,
                 caller, addLog, joined>>

\* the key a callback of the application resolves: a type that is never
\* registered
NestedKey == Key("Cfg", sEmpty)

\* the factory, the middleware or Init that goroutine p is inside calls
\* ResolveName for NestedKey on the same container
CallbackResolve(p) ==
  /\ At(p, "inFactory") \/ At(p, "inProcess") \/ At(p, "inInit")
  /\ thread[p].nested = "none"
  /\ thread' = [thread EXCEPT ![p].nested = "rlock"]
  /\ access' = {}
  /\ UNCHANGED <<services, singletons, lifecycles, middlewares, processors,
                 nextId, resolver, nRegister, nResolve, nCleanup, lastErr,
                 regErrs, earlyReg, singleRet, factoryCalls, initLog,
                 cleanupLog, cleanupErrs, mu, dispatched, mutex, errors,
                 caller, addLog, joined>>

\* container_resolve.go line 33, in the call made by the callback
NestedRLock(p) ==
  /\ ~Crashed
  /\ thread[p].nested = "rlock"
  /\ CanRLock
  /\ mu' = [mu EXCEPT !.r = @ \cup {p}]
  /\ thread' = [thread EXCEPT ![p].nested = "services"]
  /\ access' = {}
  /\ UNCHANGED <<services, singletons, lifecycles, middlewares, processors,
                 nextId, resolver, nRegister, nResolve, nCleanup, lastErr,
                 regErrs, earlyReg, singleRet, factoryCalls, initLog,
                 cleanupLog, cleanupErrs, dispatched, mutex, errors, caller,
                 addLog, joined>>

\* container_resolve.go lines 34-39, in the call made by the callback:
\* the type is not registered, the call returns an error to the callback
NestedServices(p) ==
  /\ ~Crashed
  /\ thread[p].nested = "services"
  /\ ~TypeRegistered(NestedKey.t)
  /\ mu' = [mu EXCEPT !.r = @ \ {p}]
  /\ thread' = [thread EXCEPT ![p].nested = "done"]
  /\ access' = {Access(p, "services", "r")}
  /\ UNCHANGED <<services, singletons, lifecycles, middlewares, processors,
                 nextId, resolver, nRegister, nResolve, nCleanup, lastErr,
                 regErrs, earlyReg, singleRet, factoryCalls, initLog,
                 cleanupLog, cleanupErrs, dispatched, mutex, errors, caller,
                 addLog, joined>>

(***************************************************************************)
(* SpecLock: two goroutines register services, add a middleware and a tag  *)
(* processor, and resolve, every call at the grain of the lock.            *)
(***************************************************************************)
RegCallsLock ==
  { RegCall("Logger", <<AsSingleton>>),
    RegCall("Logger", <<FailingOption>>),
    RegCall("Db", <<With("IDb"), WithName("IDb", sCache)>>) }

ResolveKeysLock == { Key("Logger", sEmpty), Key("IDb", sEmpty) }

MiddlewareKindsLock == {"pass"}

NextLock ==
  \/ /\ nRegister < MaxRegisterLock
     /\ \E p \in Procs : \E c \in RegCallsLock : RegisterLock(p, c)
  \/ \E p \in Procs : RegisterOptions(p)
  \/ \E p \in Procs : RegisterConcrete(p)
  \/ \E p \in Procs : RegisterInterface(p)
  \/ \E p \in Procs : RegisterUnlock(p)
  \/ /\ Len(middlewares) < MaxMiddlewareLock
     /\ \A q \in Procs : thread[q].op # "AddMiddleware"
     /\ \E p \in Procs : \E mw \in MiddlewareKindsLock : AddMiddlewareLock(p, mw)
  \/ \E p \in Procs : AddMiddlewareAppend(p)
  \/ /\ Len(processors) < 1 + MaxTagProcessorLock
     /\ \A q \in Procs : thread[q].op # "AddTagProcessor"
     /\ \E p \in Procs : AddTagProcessorLock(p)
  \/ \E p \in Procs : AddTagProcessorAppend(p)
  \/ /\ nResolve < MaxResolveLock
     /\ \E p \in Procs : \E k \in ResolveKeysLock : ResolveRLock(p, k)
  \/ \E p \in Procs : ResolveServices(p)
  \/ \E p \in Procs : ResolveServiceName(p)
  \/ \E p \in Procs : ResolveCacheRLock(p)
  \/ \E p \in Procs : ResolveCacheType(p)
  \/ \E p \in Procs : ResolveCacheEntry(p)
  \/ \E p \in Procs : ResolveRecheck(p)
  \/ \E p \in Procs : RacyMapRead(p)
  \/ \E p \in Procs : ResolveFactoryCall(p)
  \/ \E p \in Procs : ResolveFactoryReturn(p)
  \/ \E p \in Procs : ResolveRange(p)
  \/ \E p \in Procs : ResolveProcessCall(p)
  \/ \E p \in Procs : ResolveProcessReturn(p)
  \/ \E p \in Procs : ResolveLock(p)
  \/ \E p \in Procs : ResolveInitCall(p)
  \/ \E p \in Procs : \E initOk \in BOOLEAN : ResolveInitReturn(p, initOk)
  \/ \E p \in Procs : ResolveStore(p)
  \/ \E p \in Procs : ResolveUnlock(p)
  \/ \E p \in Procs : ResolveReturn(p)

SpecLock == Init /\ [][NextLock]_vars

(***************************************************************************)
(* SpecBlocked: the calls of SpecLock where the factory that goroutine     *)
(* Blocked has called need never return. Every other step of a call in     *)
(* progress is taken when it stays possible: the Go scheduler runs every   *)
(* runnable goroutine, sync.RWMutex hands the lock to a waiting goroutine  *)
(* once it is free, and the other callbacks of the application return.     *)
(***************************************************************************)
Blocked == 1

\* the steps that continue a call of goroutine p
Continue(p) ==
  \/ RegisterOptions(p)
  \/ RegisterConcrete(p)
  \/ RegisterInterface(p)
  \/ RegisterUnlock(p)
  \/ AddMiddlewareAppend(p)
  \/ AddTagProcessorAppend(p)
  \/ ResolveServices(p)
  \/ ResolveServiceName(p)
  \/ ResolveCacheRLock(p)
  \/ ResolveCacheType(p)
  \/ ResolveCacheEntry(p)
  \/ ResolveRecheck(p)
  \/ ResolveFactoryCall(p)
  \/ ResolveRange(p)
  \/ ResolveProcessCall(p)
  \/ ResolveProcessReturn(p)
  \/ ResolveLock(p)
  \/ ResolveInitCall(p)
  \/ \E initOk \in BOOLEAN : ResolveInitReturn(p, initOk)
  \/ ResolveStore(p)
  \/ ResolveUnlock(p)
  \/ ResolveReturn(p)

SpecBlocked ==
  /\ Init
  /\ [][NextLock]_vars
  /\ \A p \in Procs : WF_vars(Continue(p))
  /\ \A p \in Procs \ {Blocked} : WF_vars(ResolveFactoryReturn(p))

(***************************************************************************)
(* SpecRereg: one caller registers the same keys again, with another       *)
(* factory or another lifetime, between resolutions.                       *)
(***************************************************************************)
RegCallsRereg ==
  { RegCall("Logger", <<AsSingleton>>),
    RegCall("Logger", <<AsSingleton, AsFactory("Logger", "ok")>>),
    RegCall("Logger", <<AsSingleton, AsFactory("Logger", "err")>>),
    RegCall("Logger", << >>),
    RegCall("Db", <<AsSingleton, With("IDb")>>),
    RegCall("Db", <<AsSingleton, WithInstance("Db"), With("IDb")>>) }

ResolveKeysRereg == { Key("Logger", sEmpty), Key("IDb", sEmpty), Key("Db", sEmpty) }

MiddlewareKindsRereg == {"wrap"}

NextRereg ==
  \/ /\ AllIdle
     /\ nRegister < MaxRegisterRereg
     /\ \E c \in RegCallsRereg : Register(c.ty, c.opts)
  \/ /\ AllIdle
     /\ Len(middlewares) < MaxMiddlewareRereg
     /\ \E mw \in MiddlewareKindsRereg : AddMiddleware(mw)
  \/ /\ nResolve < MaxResolveRereg
     /\ \E k \in ResolveKeysRereg : Begin(1, k)
  \/ LookupType(1)
  \/ LookupName(1)
  \/ CheckCache(1)
  \/ RecheckCache(1)
  \/ \E initOk \in BOOLEAN : InvokeFactory(1, initOk)
  \/ RangeMiddlewares(1)
  \/ NextMiddleware(1)
  \/ \E initOk \in BOOLEAN : Finish(1, initOk)
  \/ Return(1)

SpecRereg == Init /\ [][NextRereg]_vars

(***************************************************************************)
(* SpecDep: one caller resolves structs with injected fields whose         *)
(* dependencies are registered with a factory that returns an error.       *)
(***************************************************************************)
RegCallsDep ==
  { RegCall("Agent", << >>),
    RegCall("Named", << >>),
    RegCall("Db", <<AsSingleton, With("IDb"), WithName("IDb", sCache)>>),
    RegCall("Db", <<AsFactory("Db", "err"), With("IDb")>>),
    RegCall("Db", <<AsFactory("Db", "err"), WithName("IDb", sCache)>>) }

ResolveKeysDep == { Key("Agent", sEmpty), Key("Named", sEmpty), Key("IDb", sEmpty) }

MiddlewareKindsDep == {"pass"}

NextDep ==
  \/ /\ AllIdle
     /\ nRegister < MaxRegisterDep
     /\ \E c \in RegCallsDep : Register(c.ty, c.opts)
  \/ /\ AllIdle
     /\ Len(middlewares) < MaxMiddlewareDep
     /\ \E mw \in MiddlewareKindsDep : AddMiddleware(mw)
  \/ /\ nResolve < MaxResolveDep
     /\ \E k \in ResolveKeysDep : Begin(1, k)
  \/ LookupType(1)
  \/ LookupName(1)
  \/ CheckCache(1)
  \/ RecheckCache(1)
  \/ \E initOk \in BOOLEAN : InvokeFactory(1, initOk)
  \/ RangeMiddlewares(1)
  \/ NextMiddleware(1)
  \/ \E initOk \in BOOLEAN : Finish(1, initOk)
  \/ Return(1)

SpecDep == Init /\ [][NextDep]_vars

(***************************************************************************)
(* SpecProc: the application adds custom tag processors, among them two    *)
(* that accept the tag "inject", registers structs with tagged fields and  *)
(* resolves them; processField is also handed single tag values.           *)
(***************************************************************************)
ProcessorsProc == {ConfigTagProcessor, OverrideTagProcessor, FallbackTagProcessor}

TagValues == {sInject, sInjectCache, sConfig, sSecret}

RegCallsProc ==
  { RegCall("Agent", <<AsSingleton>>),
    RegCall("Mixed", << >>),
    RegCall("Db", <<With("IDb"), WithName("IDb", sCache)>>) }

ResolveKeysProc == { Key("Agent", sEmpty), Key("Mixed", sEmpty) }

NextProc ==
  \/ /\ AllIdle
     /\ nRegister < MaxRegisterProc
     /\ \E c \in RegCallsProc : Register(c.ty, c.opts)
  \/ /\ AllIdle
     /\ Len(processors) < 1 + MaxTagProcessorProc
     /\ \E proc \in ProcessorsProc : AddTagProcessor(proc)
  \/ /\ AllIdle
     /\ \E value \in TagValues : DispatchTag(value)
  \/ /\ nResolve < MaxResolveProc
     /\ \E k \in ResolveKeysProc : Begin(1, k)
  \/ LookupType(1)
  \/ LookupName(1)
  \/ CheckCache(1)
  \/ RecheckCache(1)
  \/ \E initOk \in BOOLEAN : InvokeFactory(1, initOk)
  \/ RangeMiddlewares(1)
  \/ \E initOk \in BOOLEAN : Finish(1, initOk)
  \/ Return(1)

SpecProc == Init /\ [][NextProc]_vars

(***************************************************************************)
(* SpecErrs: two goroutines add errors and nil to one Errors accumulator   *)
(* and call Errors().                                                      *)
(***************************************************************************)
NextErrs ==
  \/ \E p \in Procs : \E err \in ErrValues : AddCall(p, err)
  \/ \E p \in Procs : AddLock(p)
  \/ \E p \in Procs : AddRead(p)
  \/ \E p \in Procs : AddWrite(p)
  \/ \E p \in Procs : AddUnlock(p)
  \/ \E p \in Procs : ErrorsLock(p)
  \/ \E p \in Procs : ErrorsReturn(p)

SpecErrs == Init /\ [][NextErrs]_vars

(***************************************************************************)
(* SpecReenter: the calls at the grain of the lock, where the factory, the *)
(* middleware and Init of the application may call ResolveName on the same *)
(* container before they return.  Every step of a call in progress that    *)
(* stays possible is taken, every callback returns once the call it made   *)
(* has returned.                                                           *)
(***************************************************************************)
RegCallsReenter ==
  { RegCall("Logger", <<AsSingleton>>),
    RegCall("Logger", <<FailingOption>>),
    RegCall("Db", <<With("IDb")>>) }

ResolveKeysReenter == { Key("Logger", sEmpty), Key("IDb", sEmpty) }

MiddlewareKindsReenter == {"pass"}

NextReenter ==
  \/ /\ nRegister < MaxRegisterReenter
     /\ \E p \in Procs : \E c \in RegCallsReenter : RegisterLock(p, c)
  \/ \E p \in Procs : RegisterOptions(p)
  \/ \E p \in Procs : RegisterConcrete(p)
  \/ \E p \in Procs : RegisterInterface(p)
  \/ \E p \in Procs : RegisterUnlock(p)
  \/ /\ Len(middlewares) < MaxMiddlewareReenter
     /\ \A q \in Procs : thread[q].op # "AddMiddleware"
     /\ \E p \in Procs : \E mw \in MiddlewareKindsReenter : AddMiddlewareLock(p, mw)
  \/ \E p \in Procs : AddMiddlewareAppend(p)
  \/ /\ nResolve < MaxResolveReenter
     /\ \E p \in Procs : \E k \in ResolveKeysReenter : ResolveRLock(p, k)
  \/ \E p \in Procs : ResolveServices(p)
  \/ \E p \in Procs : ResolveServiceName(p)
  \/ \E p \in Procs : ResolveCacheRLock(p)
  \/ \E p \in Procs : ResolveCacheType(p)
  \/ \E p \in Procs : ResolveCacheEntry(p)
  \/ \E p \in Procs : ResolveRecheck(p)
  \/ \E p \in Procs : RacyMapRead(p)
  \/ \E p \in Procs : ResolveFactoryCall(p)
  \/ \E p \in Procs : ResolveFactoryReturn(p)
  \/ \E p \in Procs : ResolveRange(p)
  \/ \E p \in Procs : ResolveProcessCall(p)
  \/ \E p \in Procs : ResolveProcessReturn(p)
  \/ \E p \in Procs : ResolveLock(p)
  \/ \E p \in Procs : ResolveInitCall(p)
  \/ \E p \in Procs : \E initOk \in BOOLEAN : ResolveInitReturn(p, initOk)
  \/ \E p \in Procs : ResolveStore(p)
  \/ \E p \in Procs : ResolveUnlock(p)
  \/ \E p \in Procs : ResolveReturn(p)
  \/ \E p \in Procs : CallbackResolve(p)
  \/ \E p \in Procs : NestedRLock(p)
  \/ \E p \in Procs : NestedServices(p)

SpecReenter ==
  /\ Init
  /\ [][NextReenter]_vars
  /\ \A p \in Procs : WF_vars(Continue(p))
  /\ \A p \in Procs : WF_vars(ResolveFactoryReturn(p))
  /\ \A p \in Procs : WF_vars(NestedRLock(p) \/ NestedServices(p))

(***************************************************************************)
(* Properties.                                                             *)
(***************************************************************************)
Reverse(seq) == [i \in 1..Len(seq) |-> seq[Len(seq) + 1 - i]]

Ids(life) == [i \in 1..Len(life) |-> life[i].id]

\* C1 (SpecConc): for every key registered with AsSingleton, all the
\* successful ResolveName calls for the key, of any number of concurrent
\* callers in any interleaving, return the identical instance reference:
\* the set of instances returned for the key never has two members.
SingletonIdentical ==
  \A k \in Keys : Cardinality(singleRet[k]) <= 1

\* C2 (SpecConc): for a singleton key, starting from an empty cache, the
\* registration's factory is invoked at most once in total across all the
\* concurrent ResolveName calls for the key, in every interleaving.
FactoryAtMostOnce ==
  \A k \in Keys : factoryCalls[k] <= 1

\* C3 (Spec): without concurrent resolvers, once a ResolveName for a
\* singleton key has succeeded, every later ResolveName for the key
\* succeeds with that same instance, which is the one in the cache, and
\* has invoked no factory, no middleware and no Init.
CachedSingletonReused ==
  \A p \in Procs :
     LET r == resolver[p]
     IN (r.pc = "done" /\ r.service.IsSingleton /\ singleRet[r.key] # {}) =>
          /\ r.res.ok
          /\ singleRet[r.key] = {r.res.inst.id}
          /\ r.res.inst = singletons[r.key]
          /\ r.n = NoCount

\* a later call for a singleton of a lifecycle type has returned from the
\* cache while middlewares are installed
CachedSingletonReusedWitness ==
  \E p \in Procs :
     LET r == resolver[p]
     IN /\ r.pc = "done" /\ r.service.IsSingleton /\ singleRet[r.key] # {}
        /\ r.res.ok /\ IsLifecycle(r.res.inst)
        /\ middlewares # << >>

TransientDefault(service) ==
  /\ service # NoReg
  /\ ~service.IsSingleton
  /\ service.Factory.kind = "default"

\* C4 (Spec): for a registration without AsSingleton that uses the
\* synthesized default factory, every ResolveName invokes the factory
\* anew (once in the call) and, when it succeeds, returns an instance
\* allocated during the call, hence distinct from every instance returned
\* before; no step of the call writes the Singleton Cache for the key.
TransientAlwaysFresh ==
  [][\A p \in Procs :
       LET r == resolver[p]
           r2 == resolver'[p]
       IN /\ TransientDefault(r.service) => singletons'[r.key] = singletons[r.key]
          /\ (r.pc # "done" /\ r2.pc = "done" /\ TransientDefault(r2.service)) =>
               /\ r2.n.f = 1
               /\ r2.made.id >= r2.base
               /\ r2.res.ok => r2.res.inst.id >= r2.base
               /\ singletons'[r2.key] = NoInst \/ singletons'[r2.key].id < r2.base]_vars

\* a second transient resolution of a lifecycle type has returned: the
\* instance of the first is tracked, the cache holds nothing for the key
TransientAlwaysFreshWitness ==
  \E p \in Procs :
     LET r == resolver[p]
     IN /\ r.pc = "done" /\ TransientDefault(r.service) /\ r.res.ok
        /\ Len(lifecycles) = 2
        /\ lifecycles[1].ty = r.made.ty
        /\ lifecycles[1].id < r.base
        /\ lifecycles[2].id = r.made.id
        /\ singletons[r.key] = NoInst

\* the key an option With[I]() or WithName[I](n) names
CapabilityKey(opt) ==
  Key(opt.i, IF opt.o = "WithName" THEN opt.n ELSE sEmpty)

\* C5 (Spec): after a Register[T] with With[I]() or WithName[I](n) has
\* succeeded, the concrete key (T, "") and the capability key (I, "") or
\* (I, n) hold the same Registration (same factory, same singleton flag),
\* and a ResolveName for a key that holds a Registration with the default
\* factory or a supplied instance fails only if a middleware or Init
\* returns an error.
CapabilityKeysShareRegistration ==
  [][/\ (nRegister' # nRegister /\ ~lastErr') =>
          \A c \in RegCalls :
             Register(c.ty, c.opts) =>
               \A i \in 1..Len(c.opts) :
                  c.opts[i].o \in {"With", "WithName"} =>
                     /\ services'[Key(c.ty, sEmpty)] # NoReg
                     /\ services'[CapabilityKey(c.opts[i])] = services'[Key(c.ty, sEmpty)]
     /\ \A p \in Procs :
          LET r == resolver[p]
              r2 == resolver'[p]
          IN (/\ r.pc # "done" /\ r2.pc = "done"
              /\ services[r.key] # NoReg
              /\ services[r.key].Factory.kind \in {"default", "instance"}) =>
                \/ r2.res.ok /\ Satisfies(r2.res.inst, r.key.t)
                \/ r2.res.err \in {"middleware", "init"}]_vars

\* a ResolveName for the named capability key has succeeded with the
\* Registration that the concrete key holds as well
CapabilityKeysShareRegistrationWitness ==
  \E p \in Procs :
     LET r == resolver[p]
     IN /\ r.pc = "done" /\ r.res.ok
        /\ r.key = Key("IDb", sCache)
        /\ r.res.inst.ty = "Db"
        /\ services[Key("Db", sEmpty)] = services[r.key]
        /\ r.service = services[r.key]

\* C6 (Spec): a ResolveName for a (type, name) that holds no Registration,
\* also when the type is registered under other names, returns an error;
\* the call invokes no factory, no middleware and no Init, and none of its
\* steps changes the Registry, the Singleton Cache or the Lifecycle
\* Tracker.
UnregisteredKeyFails ==
  [][\A p \in Procs :
       LET r == resolver[p]
           r2 == resolver'[p]
       IN /\ (r.pc \in {"lookupType", "lookupName"} /\ services[r.key] = NoReg) =>
               /\ r2.pc \in {"lookupName", "done"}
               /\ r2.pc = "done" => (~r2.res.ok /\ r2.res.err = "notfound")
               /\ r.pc = "lookupName" => r2.pc = "done"
          /\ (\/ r2.pc \in {"lookupType", "lookupName"}
              \/ r.pc \in {"lookupType", "lookupName"} /\ r2.pc = "done") =>
               /\ r2.n = NoCount
               /\ r2.made = NoInst
               /\ UNCHANGED <<services, singletons, lifecycles, nextId>>]_vars

\* a ResolveName has failed for a key without Registration whose type is
\* registered under another name
UnregisteredKeyFailsWitness ==
  \E p \in Procs :
     LET r == resolver[p]
     IN /\ r.pc = "done" /\ r.res.err = "notfound" /\ r.n = NoCount
        /\ services[r.key] = NoReg
        /\ \E k \in Keys : k.t = r.key.t /\ services[k] # NoReg

\* the type has a field whose fabric marker no registered processor accepts
HasUnacceptedMarker(ty) ==
  \E i \in 1..Len(Fields(ty)) :
     /\ Fields(ty)[i].tag # sEmpty
     /\ \A j \in 1..Len(processors) : ~CanProcess(processors[j], Fields(ty)[i].tag)

\* C7 (Spec): a Register[T] (without a factory option) of a type that has
\* a field whose fabric marker no registered tag processor accepts returns
\* an error and leaves the Registry unchanged.
UnacceptedMarkerRejected ==
  [][nRegister' # nRegister =>
       \A c \in RegCalls :
          (/\ HasUnacceptedMarker(c.ty)
           /\ \A i \in 1..Len(c.opts) : c.opts[i].o \notin {"AsFactory", "WithInstance"}
           /\ Register(c.ty, c.opts)) =>
             (lastErr' /\ services' = services)]_vars

\* what the call r has done when its loop over the chain added is over:
\* one invocation of each middleware, in the order of added, the first on
\* the result of the factory, each later one on the output of the one
\* before
ChainApplied(r, added) ==
  /\ r.mws = added
  /\ Len(r.mwLog) = Len(added)
  /\ \A i \in 1..Len(r.mwLog) :
       /\ r.mwLog[i].idx = i
       /\ r.mwLog[i].mw = added[i]
       /\ ~r.mwLog[i].err
       /\ r.mwLog[i].in = (IF i = 1 THEN r.made.id ELSE r.mwLog[i - 1].out)
  /\ r.cur.id = (IF r.mwLog = << >> THEN r.made.id ELSE r.mwLog[Len(r.mwLog)].out)

ChainAppliedAtFinish ==
  \A p \in Procs :
     resolver[p].pc = "finish" => ChainApplied(resolver[p], middlewares)

\* C8 (Spec): on every ResolveName that does not return from the cache,
\* when the loop over the middlewares is over each of the N middlewares
\* added so far has been invoked exactly once, in the order of the
\* AddMiddleware calls, the first on the factory's result and each later
\* one on its predecessor's output; and the chain only grows at its end.
MiddlewareChainInOrder ==
  [][/\ ChainAppliedAtFinish'
     /\ middlewares' # middlewares =>
          \E mw \in MiddlewareKinds : middlewares' = Append(middlewares, mw)]_vars

\* a call has run a chain of two middlewares, the first of which wrapped
\* the factory's result
MiddlewareChainInOrderWitness ==
  \E p \in Procs :
     LET r == resolver[p]
     IN /\ r.pc = "finish"
        /\ Len(r.mwLog) = 2
        /\ r.mwLog[1].mw # r.mwLog[2].mw
        /\ r.mwLog[1].out # r.made.id
        /\ r.mwLog[2].in = r.mwLog[1].out

CleanupReverseOrder ==
  [][nCleanup' = nCleanup + 1 =>
       /\ Ids(lifecycles) = initLog
       /\ cleanupLog' = Reverse(initLog)]_vars

\* three distinct instances were initialized and the container torn down
CleanupReverseOrderWitness ==
  /\ nCleanup = 1
  /\ Len(initLog) = 3
  /\ Cardinality({initLog[i] : i \in 1..3}) = 3
  /\ cleanupLog = <<initLog[3], initLog[2], initLog[1]>>

\* C11 (SpecLife): container Cleanup never stops at a failing instance:
\* Cleanup is invoked on every tracked instance whichever of them fail,
\* the returned error holds one entry for every Cleanup that failed, and
\* it is nil (no entry) if and only if no Cleanup failed.
CleanupCollectsAllErrors ==
  [][nCleanup' = nCleanup + 1 =>
       /\ Len(cleanupLog') = Len(lifecycles)
       /\ \A i \in 1..Len(lifecycles) :
            \E j \in 1..Len(cleanupLog') : cleanupLog'[j] = lifecycles[i].id
       /\ \A failing \in SUBSET (1..Len(lifecycles)) :
            Cleanup(failing) =>
              /\ Len(cleanupErrs') = Cardinality(failing)
              /\ \A i \in failing :
                   \E j \in 1..Len(cleanupErrs') : cleanupErrs'[j] = lifecycles[i].id
              /\ cleanupErrs' = << >> <=> failing = {}]_vars

\* of three tracked instances the Cleanup of the first one called and of
\* the last one called failed; the one between them was still cleaned up
CleanupCollectsAllErrorsWitness ==
  /\ nCleanup = 1
  /\ Len(cleanupLog) = 3
  /\ cleanupErrs = <<cleanupLog[1], cleanupLog[3]>>
  /\ cleanupLog[1] # cleanupLog[3]

\* how often Cleanup was called on the instance id in the teardown log
CleanupCount(log, id) == Cardinality({j \in 1..Len(log) : log[j] = id})

\* C12 (Spec): during container teardown Cleanup is invoked exactly once
\* on each lifecycle-managed instance that was successfully initialized,
\* whatever Register and ResolveName calls came before.
CleanupExactlyOnce ==
  [][nCleanup' = nCleanup + 1 =>
       \A i \in 1..Len(initLog) : CleanupCount(cleanupLog', initLog[i]) = 1]_vars

\* the name a fabric tag of the form inject or inject:<name> asks for
TagName(tag) == IF Len(tag) > Len(sInject) THEN SubSeq(tag, Len(sInject) + 2, Len(tag))
                ELSE sEmpty

\* in a step of a factory, the instance id is what the Registration under
\* k yields: the cached singleton, the supplied instance, or an instance
\* made in this step; a named resolution stores its singleton
FromRegistration(id, k) ==
  LET service == services[k]
  IN /\ service # NoReg
     /\ id # 0
     /\ IF service.IsSingleton /\ singletons[k] # NoInst THEN id = singletons[k].id
        ELSE IF service.IsSingleton /\ k.n # sEmpty THEN id = singletons'[k].id
        ELSE IF service.Factory.kind = "instance"
                /\ (k.n = sEmpty \/ \A i \in 1..Len(middlewares) : middlewares[i] = "pass")
             THEN id = service.Factory.inst.id
        ELSE id >= nextId /\ id < nextId'

DependenciesRegistered(ty) ==
  \A i \in 1..Len(Fields(ty)) :
     Fields(ty)[i].tag # sEmpty =>
        services[Key(Fields(ty)[i].type, TagName(Fields(ty)[i].tag))] # NoReg

InitFailureAborts ==
  [][/\ Ids(lifecycles') = initLog'
     /\ \A p \in Procs :
          LET r == resolver[p]
              r2 == resolver'[p]
          IN /\ (/\ r.pc = "finish"
                 /\ r2.n.i = r.n.i + 1
                 /\ initLog' = initLog) =>
                  /\ r2.pc = "done"
                  /\ ~r2.res.ok
                  /\ r2.res.err = "init"
                  /\ r2.res.inst = NoInst
                  /\ UNCHANGED <<singletons, lifecycles>>
             /\ (r.pc = "done" /\ r.res.err = "init") =>
                  /\ r2 = Idle
                  /\ UNCHANGED <<singletons, lifecycles, initLog>>]_vars

\* Init has failed for a new instance of a singleton that had passed a
\* middleware: neither the cache nor the tracker holds anything
InitFailureAbortsWitness ==
  \E p \in Procs :
     LET r == resolver[p]
     IN /\ r.pc = "done" /\ r.res.err = "init"
        /\ r.service.IsSingleton /\ IsLifecycle(r.cur)
        /\ r.n.i = 1
        /\ Len(r.mwLog) >= 1
        /\ singletons[r.key] = NoInst
        /\ lifecycles = << >>

\* C16 (SpecType): in every reachable state each instance in the
\* Singleton Cache satisfies the type of its key and, if it is
\* lifecycle-managed, had its Init return nil; and the cache does not hold
\* the instance of a resolution that failed.
CacheHoldsOnlyCompleted ==
  \A k \in Keys :
     singletons[k] # NoInst =>
        /\ Satisfies(singletons[k], k.t)
        /\ IsLifecycle(singletons[k]) =>
             \E i \in 1..Len(initLog) : initLog[i] = singletons[k].id
        /\ \A p \in Procs :
             (resolver[p].pc = "done" /\ ~resolver[p].res.ok) =>
                singletons[k] \notin {resolver[p].made, resolver[p].cur}

\* C18 (SpecType): if the factory returns an instance that does not
\* satisfy the requested type, ResolveName returns an error, invokes no
\* middleware and no Init, and stores nothing in the Singleton Cache (nor
\* in the Lifecycle Tracker).
WrongFactoryResultFails ==
  [][\A p \in Procs :
       LET r == resolver[p]
           r2 == resolver'[p]
       IN /\ (/\ r.pc = "factory"
              /\ r2.made # NoInst
              /\ ~Satisfies(r2.made, r.key.t)) =>
               /\ r2.pc = "done"
               /\ ~r2.res.ok
               /\ r2.res.err = "cast"
               /\ r2.res.inst = NoInst
               /\ r2.n.m = 0 /\ r2.mwLog = << >>
               /\ r2.n.i = 0
               /\ UNCHANGED <<singletons, lifecycles, initLog>>
          /\ (r.pc = "done" /\ r.res.err = "cast") =>
               /\ r2 = Idle
               /\ UNCHANGED <<singletons, lifecycles, initLog>>]_vars

\* the factory of a singleton has returned a lifecycle-managed instance of
\* another type while a middleware was installed: the call has failed,
\* nothing is cached or tracked
WrongFactoryResultFailsWitness ==
  \E p \in Procs :
     LET r == resolver[p]
     IN /\ r.pc = "done" /\ r.res.err = "cast"
        /\ r.service.IsSingleton
        /\ IsLifecycle(r.made) /\ ~Satisfies(r.made, r.key.t)
        /\ middlewares # << >>
        /\ singletons[r.key] = NoInst
        /\ lifecycles = << >>

\* C19 (SpecType): a type mismatch at the point of return is reported as
\* an error, never as a panic: when the instance to be returned does not
\* satisfy the requested type, also after a middleware replaced it, the
\* call ends with an error and the instance is neither in the Singleton
\* Cache nor in the Lifecycle Tracker.
MismatchAtReturnIsError ==
  \A p \in Procs :
     LET r == resolver[p]
     IN (r.pc = "done" /\ r.cur # NoInst /\ ~Satisfies(r.cur, r.key.t)) =>
          /\ ~r.res.ok
          /\ r.res.err # "panic"
          /\ \A k \in Keys : singletons[k] # r.cur
          /\ \A i \in 1..Len(lifecycles) : lifecycles[i] # r.cur

\* C17 (SpecTag): if the factory of a Registration returns an error, also
\* a synthesized injecting factory that fails on one of its fields,
\* ResolveName returns an error, runs no middleware and no Init for the
\* Registration, and leaves the Singleton Cache and the Lifecycle Tracker
\* exactly as they were before the call.
FactoryErrorLeavesNoState ==
  [][\A p \in Procs :
       LET r == resolver[p]
           r2 == resolver'[p]
       IN (r.pc = "factory" /\ r2.pc = "done" /\ r2.made = NoInst) =>
            /\ ~r2.res.ok
            /\ r2.res.inst = NoInst
            /\ r2.mwLog = << >>
            /\ UNCHANGED <<singletons, lifecycles, initLog>>]_vars

\* the tagged fields of ty whose Registration makes a new instance in a
\* factory step: no supplied instance, no singleton already cached
FreshFields(ty) ==
  {i \in 1..Len(Fields(ty)) :
     LET k == Key(Fields(ty)[i].type, TagName(Fields(ty)[i].tag))
     IN /\ Fields(ty)[i].tag # sEmpty
        /\ services[k].Factory.kind # "instance"
        /\ ~(services[k].IsSingleton /\ singletons[k] # NoInst)}

\* C20 (SpecTag): every instance newly made by its factory during
\* tag-triggered resolution, for inject fields as well as for
\* inject:<name> fields, is passed through the whole middleware chain
\* before it is assigned: a successful injecting factory has invoked
\* every middleware once for every such instance.
InjectedThroughChain ==
  [][\A p \in Procs :
       LET r == resolver[p]
           r2 == resolver'[p]
       IN (/\ r.pc = "factory" /\ r2.pc = "range"
           /\ r.service.Factory.kind = "tag") =>
             r2.n.m = Len(middlewares) * Cardinality(FreshFields(r.service.Factory.ty))]_vars

\* the tagged fields of ty that the factory step has set, with the key
\* each of them was resolved under
InjectedFields(ty, made) ==
  {i \in 1..Len(Fields(ty)) : Fields(ty)[i].tag # sEmpty /\ made.fields[i] # 0}

FieldKey(ty, i) == Key(Fields(ty)[i].type, TagName(Fields(ty)[i].tag))

\* C21 (Spec): when a struct field is injected from a singleton
\* Registration whose cache entry is empty, the instance made for the
\* field is stored in the Singleton Cache under (field type, name), for
\* fields tagged inject as for fields tagged inject:<name>, so that later
\* resolutions of the key yield the instance that was injected.
InjectedSingletonCached ==
  [][\A p \in Procs :
       LET r == resolver[p]
           r2 == resolver'[p]
       IN (/\ r.pc = "factory" /\ r2.pc = "range"
           /\ r.service.Factory.kind = "tag") =>
             LET ty == r.service.Factory.ty
             IN \A i \in InjectedFields(ty, r2.made) :
                  (/\ services[FieldKey(ty, i)].IsSingleton
                   /\ singletons[FieldKey(ty, i)] = NoInst) =>
                     /\ singletons'[FieldKey(ty, i)] # NoInst
                     /\ singletons'[FieldKey(ty, i)].id = r2.made.fields[i]]_vars

\* C22 (Spec): when a field is injected with a newly made instance that
\* implements LifecycleService, Init is invoked on the instance and the
\* instance is appended to the Lifecycle Tracker within the factory step,
\* hence before the Init of the enclosing struct and before the struct is
\* tracked; this for fields tagged inject and for fields tagged
\* inject:<name>.
InjectedLifecycleTracked ==
  [][\A p \in Procs :
       LET r == resolver[p]
           r2 == resolver'[p]
       IN (/\ r.pc = "factory" /\ r2.pc = "range"
           /\ r.service.Factory.kind = "tag") =>
             LET ty == r.service.Factory.ty
             IN \A i \in InjectedFields(ty, r2.made) \cap FreshFields(ty) :
                  services[FieldKey(ty, i)].Factory.ty \in LifecycleTypes =>
                     /\ \E j \in 1..Len(initLog') :
                          j > Len(initLog) /\ initLog'[j] = r2.made.fields[i]
                     /\ \E j \in 1..Len(lifecycles') :
                          j > Len(lifecycles) /\ lifecycles'[j].id = r2.made.fields[i]]_vars

\* C23 (Spec): one singleton Registration indexed under its concrete key
\* and under capability keys yields one instance: after a single Register
\* call, the ResolveName calls of a sequential caller through any of the
\* Registration's keys return the same instance and invoke the factory at
\* most once overall.
RegistrationKeysOf(k) ==
  {j \in Keys : services[j] # NoReg /\ services[j] = services[k]}

OneInstancePerRegistration ==
  [][nRegister = 1 =>
       \A p \in Procs :
          LET r == resolver[p]
              r2 == resolver'[p]
          IN /\ (/\ r.pc = "factory" /\ r.service.IsSingleton
                 /\ r2.n.f > r.n.f) =>
                  \A j \in RegistrationKeysOf(r.key) : singletons[j] = NoInst
             /\ (/\ r.pc = "done" /\ r2.pc = "idle"
                 /\ r.service.IsSingleton) =>
                  Cardinality(UNION {singleRet'[j] : j \in RegistrationKeysOf(r.key)}) <= 1]_vars

\* the positions of the options of a call that return an error
FailingOptions(opts) == {i \in 1..Len(opts) : OptionFails(opts[i])}

\* C24 (SpecOpt): if an option of a Register call returns an error,
\* Register returns an error and the Registry is as it was before the
\* call: no entry of a concrete key or of a capability key is added or
\* replaced.
FailedOptionLeavesRegistry ==
  [][nRegister' # nRegister =>
       \A c \in RegCallsOpt :
          (FailingOptions(c.opts) # {} /\ Register(c.ty, c.opts)) =>
             (lastErr' /\ services' = services)]_vars

\* a Register of Db with a capability option and a failing option has
\* returned an error while the key of the capability held the singleton
\* Registration of an earlier call, which is still there
FailedOptionLeavesRegistryWitness ==
  /\ nRegister = 2
  /\ lastErr
  /\ regErrs = <<2>>
  /\ services[Key("IDb", sEmpty)] # NoReg
  /\ services[Key("IDb", sEmpty)].IsSingleton
  /\ services[Key("Db", sEmpty)].IsSingleton

\* C25 (SpecOpt): when several options of one Register call fail, the
\* error Register returns reports the error of every failing option, not
\* only of the first.
AllOptionErrorsReported ==
  [][nRegister' # nRegister =>
       \A c \in RegCallsOpt :
          Register(c.ty, c.opts) =>
             {regErrs'[i] : i \in 1..Len(regErrs')} = FailingOptions(c.opts)]_vars

\* the kind of factory the last AsFactory or WithInstance option sets
LastFactoryKind(opts) ==
  LET i == CHOOSE i \in 1..Len(opts) :
             /\ opts[i].o \in {"AsFactory", "WithInstance"}
             /\ \A j \in (i+1)..Len(opts) : opts[j].o \notin {"AsFactory", "WithInstance"}
  IN IF opts[i].o = "AsFactory" THEN "custom" ELSE "instance"

\* C26 (SpecOpt): a factory supplied by AsFactory or WithInstance, the
\* last such option of the call, overrides auto-synthesis: Register of a
\* type with tagged fields validates no tag and stores the supplied
\* factory, and ResolveName returns what that factory returns, with no
\* field injected and no other factory invoked.
SuppliedFactoryOverrides ==
  [][/\ nRegister' # nRegister =>
          \A c \in RegCallsOpt :
             (/\ HasFactoryOption(c.opts) /\ FailingOptions(c.opts) = {}
              /\ Register(c.ty, c.opts)) =>
                /\ ~lastErr'
                /\ services'[Key(c.ty, sEmpty)].Factory.kind = LastFactoryKind(c.opts)
     /\ \A p \in Procs :
          LET r == resolver[p]
              r2 == resolver'[p]
              f == r.service.Factory
          IN /\ (r.pc = "factory" /\ f.kind \in {"custom", "instance"}
                   /\ f.out = "ok") =>
                  /\ r2.pc = "range"
                  /\ r2.made = IF f.kind = "instance" THEN f.inst
                               ELSE NewInst(nextId, f.ty)
                  /\ \A i \in 1..Len(r2.made.fields) : r2.made.fields[i] = 0
                  /\ r2.n.f = 1
                  /\ UNCHANGED <<singletons, lifecycles, initLog>>
             /\ (/\ r.pc # "done" /\ r2.pc = "done" /\ r2.res.ok
                 /\ r2.service.Factory.kind \in {"custom", "instance"}) =>
                  r2.res.inst = r2.made]_vars

\* ResolveName of a struct with an inject field and a config field,
\* registered with AsFactory and then WithInstance while no processor
\* accepts config, has returned the supplied instance, no field set
SuppliedFactoryOverridesWitness ==
  \E p \in Procs :
     LET r == resolver[p]
     IN /\ r.pc = "done" /\ r.res.ok /\ r.key = Key("Mixed", sEmpty)
        /\ r.service.Factory.kind = "instance"
        /\ ~validateFabricTags("Mixed", processors)
        /\ r.res.inst = r.service.Factory.inst
        /\ r.res.inst.fields = <<0, 0>>

\* ty declares a field whose tag the inject processor accepts
HasInjectMarker(ty) ==
  \E i \in 1..Len(Fields(ty)) : CanProcess(InjectTagProcessor, Fields(ty)[i].tag)

\* C27 (SpecOpt): Register without a factory option synthesizes the
\* field-injecting factory whenever the type declares a field with a
\* recognized injection marker, inject or inject:<name> in any case; that
\* factory then resolves every marked field.
MarkedTypeSynthesized ==
  [][nRegister' # nRegister =>
       \A c \in RegCallsOpt :
          (/\ ~HasFactoryOption(c.opts) /\ FailingOptions(c.opts) = {}
           /\ HasInjectMarker(c.ty)
           /\ validateFabricTags(c.ty, processors)
           /\ Register(c.ty, c.opts)) =>
             /\ ~lastErr'
             /\ services'[Key(c.ty, sEmpty)].Factory.kind = "tag"]_vars

\* C28 (SpecLock): every read of the Registry, the Singleton Cache, the
\* Lifecycle Tracker, the Middleware Chain and the tag processors made by
\* Register, ResolveName, AddMiddleware and AddTagProcessor happens while
\* the caller holds the container lock, shared or exclusive, and every
\* write while the caller holds it exclusively.
AccessesUnderLock ==
  \A a \in access :
     /\ a.op = "r" => a.held \in {"shared", "exclusive"}
     /\ a.op = "w" => a.held = "exclusive"

\* goroutine q is inside Register between its first and its last insertion
InsertionsInProgress(q) ==
  /\ thread[q].op = "Register"
  /\ thread[q].pc = "interfaces"
  /\ thread[q].todo # << >>

\* C29 (SpecLock): the insertions of a Register call, its concrete-key
\* entry and its capability-key entries, are atomic to concurrent
\* ResolveName calls: no lookup of one of the call's keys is made in the
\* Registry while the Register has inserted some of its entries and not
\* the others.
RegisterAtomicToLookups ==
  [][\A p \in Procs :
       (/\ thread[p].op = "ResolveName"
        /\ thread[p].pc \in {"services", "name"}
        /\ thread'[p] # thread[p]) =>
          \A q \in Procs \ {p} :
             InsertionsInProgress(q) =>
                thread[p].key \notin RegisteredKeys(thread[q].call.ty, thread[q].options)]_vars

\* C30 (SpecLock): no code of the application, factory, middleware
\* Process or Init, runs while the resolver that invoked it holds the
\* container lock exclusively; a resolver that is inside Init does not keep
\* a ResolveName of another key from taking the lock.
NoUserCodeUnderLock ==
  \A p \in Procs :
     thread[p].pc \in {"inFactory", "inProcess", "inInit"} =>
        /\ mu.w # p
        /\ \A q \in Procs \ {p} :
             (/\ thread[q].op = "ResolveName"
              /\ thread[q].key # thread[p].key
              /\ thread[q].pc \in {"rlock", "lock"}) =>
                IF thread[q].pc = "rlock" THEN CanRLock ELSE ~(mu.w = p)

\* C31 (SpecBlocked): while one resolver is blocked for ever inside the
\* factory of a registration, every Register, AddMiddleware,
\* AddTagProcessor and ResolveName call of another goroutine still
\* completes (unless the runtime has stopped the process on a racing map
\* access); the blocked resolver holds the container lock in no mode.
BlockedFactoryBlocksNoOne ==
  /\ [](thread[Blocked].pc = "inFactory" => Held(Blocked) = "none")
  /\ \A q \in Procs \ {Blocked} :
        (thread[q].pc # "idle") ~> (thread[q].pc = "idle" \/ Crashed)

\* goroutine Blocked is inside the factory while the other goroutine holds
\* the lock exclusively in a Register of another type
BlockedFactoryBlocksNoOneWitness ==
  /\ thread[Blocked].pc = "inFactory"
  /\ \E q \in Procs \ {Blocked} :
        /\ thread[q].op = "Register"
        /\ thread[q].pc = "interfaces"
        /\ thread[q].call.ty # thread[Blocked].key.t
        /\ mu.w = q

\* C32 (SpecConc): once an instance is stored in the Singleton Cache for a
\* key, no later step of any call, in any interleaving, removes the entry
\* or replaces it by a different instance.
CacheEntryPermanent ==
  [][\A k \in Keys :
       singletons[k] # NoInst => singletons'[k] = singletons[k]]_vars

\* C33 (Spec): the Lifecycle Tracker is append-only: no step, Cleanup
\* included, removes or reorders an entry; a step appends exactly one
\* entry for each Init call that returned nil in it and none for an Init
\* that failed, so the tracker lists the instances in the order in which
\* their Init calls completed.
TrackerAppendOnly ==
  [][/\ Len(lifecycles') >= Len(lifecycles)
     /\ SubSeq(lifecycles', 1, Len(lifecycles)) = lifecycles
     /\ Len(lifecycles') - Len(lifecycles) = Len(initLog') - Len(initLog)
     /\ Ids(lifecycles') = initLog'
     /\ nCleanup' # nCleanup => lifecycles' = lifecycles
     /\ \A p \in Procs :
          (/\ resolver[p].pc = "finish"
           /\ resolver'[p].pc = "done"
           /\ resolver'[p].res.err = "init") => lifecycles' = lifecycles]_vars

\* two instances were tracked in the order of their Init calls, Cleanup
\* has run over both, and the tracker still lists the two
TrackerAppendOnlyWitness ==
  /\ nCleanup = 1
  /\ Len(lifecycles) = 2
  /\ lifecycles[1].id < lifecycles[2].id
  /\ cleanupLog = Reverse(Ids(lifecycles))

\* C34 (Spec): within a ResolveName that does not return from the cache
\* the steps come in the order factory, type check, middleware chain,
\* Init, cache store: the chain starts on the factory's checked result
\* with nothing cached for the key, Init is called once the whole chain has
\* run and on the chain's output, and the instance stored in the cache and
\* returned is that same output.
ResolveStepsInOrder ==
  [][\A p \in Procs :
       LET r == resolver[p]
           r2 == resolver'[p]
           single == r.service # NoReg /\ r.service.IsSingleton
       IN /\ (r2.pc = "range" /\ r.pc # "range") =>
                /\ r.pc = "factory"
                /\ r2.made # NoInst /\ r2.cur = r2.made
                /\ Satisfies(r2.made, r.key.t)
                /\ r2.mwLog = << >>
                /\ single => singletons'[r.key] = NoInst
          /\ (r2.pc = "middleware" /\ r2 # r) =>
                /\ r.pc \in {"range", "middleware"}
                /\ initLog' = initLog /\ singletons' = singletons
          /\ (r2.pc = "finish" /\ r.pc # "finish") =>
                /\ r.pc \in {"range", "middleware"}
                /\ ChainApplied(r2, r2.mws)
                /\ initLog' = initLog /\ singletons' = singletons
          /\ (r.pc = "finish" /\ r2.pc = "done") =>
                /\ ChainApplied(r, r.mws)
                /\ IsLifecycle(r.cur) =>
                     /\ r2.n.i = r.n.i + 1
                     /\ r2.res.err # "init" =>
                          /\ initLog' = Append(initLog, r.cur.id)
                          /\ lifecycles' = Append(lifecycles, r.cur)
                /\ ~IsLifecycle(r.cur) => r2.n.i = r.n.i /\ initLog' = initLog
                /\ r2.res.ok =>
                     /\ r2.res.inst = r.cur
                     /\ single => singletons' = [singletons EXCEPT ![r.key] = r.cur]
                /\ (~r2.res.ok \/ ~single) => singletons' = singletons
          /\ (r2.pc = "done" /\ r.pc # "done" /\ r2.res.ok) =>
                r.pc \in {"check", "recheck", "finish"}]_vars

\* a singleton with Init was resolved through a wrapping middleware: the
\* wrapper, not the factory's result, is tracked, cached and returned
ResolveStepsInOrderWitness ==
  \E p \in Procs :
     LET r == resolver[p]
     IN /\ r.pc = "done" /\ r.res.ok
        /\ r.service.IsSingleton
        /\ r.mwLog # << >>
        /\ r.res.inst.id = r.mwLog[Len(r.mwLog)].out
        /\ r.res.inst.id # r.made.id
        /\ singletons[r.key] = r.res.inst
        /\ lifecycles # << >>
        /\ lifecycles[Len(lifecycles)] = r.res.inst

\* the keys a Register call declares: the concrete key and one capability
\* key for each With and WithName option
DeclaredKeys(c) ==
  {Key(c.ty, sEmpty)} \cup
  {CapabilityKey(c.opts[i]) :
     i \in {j \in 1..Len(c.opts) : c.opts[j].o \in {"With", "WithName"}}}

\* C36 (Spec): a Register[T] that succeeds changes only the Registry
\* entries at (T, "") and at the capability key of each With and WithName
\* option, which then all hold the same Registration; every other Registry
\* entry, the Singleton Cache, the Lifecycle Tracker, the Middleware Chain
\* and the processor chain are left as they were.
RegisterFrame ==
  [][(nRegister' # nRegister /\ ~lastErr') =>
        \A c \in RegCalls :
           Register(c.ty, c.opts) =>
              /\ \A k \in Keys \ DeclaredKeys(c) : services'[k] = services[k]
              /\ \A k \in DeclaredKeys(c) :
                   /\ services'[k] # NoReg
                   /\ services'[k] = services'[Key(c.ty, sEmpty)]
              /\ UNCHANGED <<singletons, lifecycles, middlewares, processors>>]_vars

\* a Register with two capability keys has succeeded on a container that
\* holds another Registration, a cached and tracked instance and a
\* middleware
RegisterFrameWitness ==
  /\ nRegister = 2 /\ ~lastErr
  /\ services[Key("Db", sEmpty)] # NoReg
  /\ services[Key("IDb", sEmpty)] = services[Key("Db", sEmpty)]
  /\ services[Key("IDb", sCache)] = services[Key("Db", sEmpty)]
  /\ services[Key("Logger", sEmpty)] # NoReg
  /\ singletons[Key("Logger", sEmpty)] # NoInst
  /\ middlewares # << >>
  /\ nResolve = 1

\* C40 (SpecRereg): a Register of a key that already holds a Registration
\* replaces the Registration and leaves the Singleton Cache as it was; when
\* an instance is cached for the key and the new Registration is a
\* singleton as well, every later ResolveName returns the cached instance
\* and calls no factory, no middleware and no Init.
ReRegisterKeepsCache ==
  [][/\ nRegister' # nRegister =>
          /\ singletons' = singletons
          /\ \A c \in RegCallsRereg :
               (~lastErr' /\ Register(c.ty, c.opts)) =>
                  \A k \in DeclaredKeys(c) :
                     /\ services'[k].Factory = FactoryOrSynthesized(c.ty,
                          ApplyOptions(defaultRegistrationOptions, c.opts, nextId).rs)
                     /\ services'[k].IsSingleton =
                          (\E i \in 1..Len(c.opts) : c.opts[i] = AsSingleton)
     /\ \A p \in Procs :
          LET r == resolver[p]
              r2 == resolver'[p]
          IN (/\ r.pc = "lookupName" /\ r2 # r
              /\ services[r.key] # NoReg
              /\ services[r.key].IsSingleton
              /\ singletons[r.key] # NoInst) => r2.pc = "check"
     /\ \A p \in Procs :
          LET r == resolver[p]
              r2 == resolver'[p]
          IN (/\ r.pc = "check" /\ r2 # r
              /\ singletons[r.key] # NoInst) =>
                /\ r2.pc = "done" /\ r2.res.ok
                /\ r2.res.inst = singletons[r.key]
                /\ r2.n = NoCount
                /\ factoryCalls' = factoryCalls
                /\ UNCHANGED <<singletons, lifecycles, nextId>>]_vars

\* the key was registered again with a factory that fails, or with a
\* supplied instance, while an instance made by the earlier Registration
\* was cached, and a later ResolveName has returned the cached instance
ReRegisterKeepsCacheWitness ==
  \E p \in Procs :
     LET r == resolver[p]
     IN /\ r.pc = "done" /\ r.res.ok
        /\ r.service = services[r.key]
        /\ r.service.IsSingleton
        /\ r.res.inst = singletons[r.key]
        /\ r.n = NoCount
        /\ \/ r.service.Factory.out = "err"
           \/ /\ r.service.Factory.kind = "instance"
              /\ r.service.Factory.inst.id # r.res.inst.id

\* the factory of ty's i-th field dependency returns an error, and every
\* field before it is resolved without one (by type, from a Registration
\* whose factory succeeds)
DependencyFactoryFails(ty, i) ==
  /\ i \in 1..Len(Fields(ty))
  /\ Fields(ty)[i].tag # sEmpty
  /\ services[FieldKey(ty, i)] # NoReg
  /\ services[FieldKey(ty, i)].Factory.out = "err"
  /\ \A j \in 1..(i - 1) :
        /\ Fields(ty)[j].tag = sInject
        /\ services[FieldKey(ty, j)] # NoReg
        /\ services[FieldKey(ty, j)].Factory.out = "ok"

\* C37 (SpecDep): when the factory of an injected dependency returns the
\* error e during the factory step of a struct with tagged fields, the
\* enclosing ResolveName fails and the error it returns carries e, for a
\* field tagged inject as for a field tagged inject:<name>.
DependencyErrorCarried ==
  [][\A p \in Procs :
       LET r == resolver[p]
           r2 == resolver'[p]
       IN (/\ r.pc = "factory" /\ r2 # r
           /\ r.service.Factory.kind = "tag"
           /\ \E i \in 1..Len(Fields(r.service.Factory.ty)) :
                 DependencyFactoryFails(r.service.Factory.ty, i)) =>
             /\ r2.pc = "done"
             /\ ~r2.res.ok
             /\ r2.res.err = "factory"]_vars

\* the same for the fields tagged inject:<name> alone
NamedDependencyErrorCarried ==
  [][\A p \in Procs :
       LET r == resolver[p]
           r2 == resolver'[p]
       IN (/\ r.pc = "factory" /\ r2 # r
           /\ r.service.Factory.kind = "tag"
           /\ \E i \in 1..Len(Fields(r.service.Factory.ty)) :
                 /\ DependencyFactoryFails(r.service.Factory.ty, i)
                 /\ Fields(r.service.Factory.ty)[i].tag # sInject) =>
             /\ r2.pc = "done"
             /\ ~r2.res.ok
             /\ r2.res.err = "factory"]_vars

\* the positions of the processors of the chain that accept a tag value
Accepting(procs, value) == {i \in 1..Len(procs) : CanProcess(procs[i], value)}

First(S) == CHOOSE i \in S : \A j \in S : i <= j

Occurrences(procs, proc) == Cardinality({i \in 1..Len(procs) : procs[i] = proc})

\* C35 (SpecProc): after every AddTagProcessor the processor chain holds
\* the processors added so far in non-increasing order of priority; a tag
\* value is handled by exactly one processor, the first of the chain whose
\* CanProcess accepts it, so that a custom processor of higher priority
\* that accepts "inject" pre-empts the default one and the field is not
\* injected; when no processor accepts the value processField fails and
\* calls no Process.
ProcessorChainDispatch ==
  [][/\ \A i \in 1..(Len(processors') - 1) :
          processors'[i].prio >= processors'[i + 1].prio
     /\ processors' # processors =>
          \E proc \in ProcessorsProc :
             \A x \in ProcessorsProc \cup {InjectTagProcessor} :
                Occurrences(processors', x) =
                   Occurrences(processors, x) + (IF x = proc THEN 1 ELSE 0)
     /\ dispatched' # dispatched =>
          LET d == dispatched'
              accepting == Accepting(processors, d.value)
          IN IF accepting = {}
             THEN d.handler = 0 /\ d.err # ""
             ELSE /\ d.handler = First(accepting)
                  /\ d.kind = processors[d.handler].kind
                  /\ d.err = ""
     /\ \A p \in Procs :
          LET r == resolver[p]
              r2 == resolver'[p]
              ty == r.service.Factory.ty
          IN (/\ r.pc = "factory" /\ r2.pc = "range"
              /\ r.service.Factory.kind = "tag") =>
                \A i \in 1..Len(Fields(ty)) :
                   Fields(ty)[i].tag # sEmpty =>
                      /\ Accepting(processors, Fields(ty)[i].tag) # {}
                      /\ (r2.made.fields[i] # 0) <=>
                           (processors[First(Accepting(processors, Fields(ty)[i].tag))].kind
                              = "inject")]_vars

\* with a custom processor of priority 100 and one of priority -1 that
\* both accept "inject" in the chain, a struct was resolved whose field
\* tagged inject was left to the custom processor of priority 100 and
\* whose field tagged inject:cache was injected; a tag value that no
\* processor accepts has been refused
ProcessorChainDispatchWitness ==
  /\ \E i, j, k \in 1..Len(processors) :
        /\ i < j /\ j < k
        /\ processors[i] = OverrideTagProcessor
        /\ processors[j] = InjectTagProcessor
        /\ processors[k] = FallbackTagProcessor
  /\ \E p \in Procs :
        LET r == resolver[p]
        IN /\ r.pc = "done" /\ r.res.ok
           /\ r.key = Key("Agent", sEmpty)
           /\ r.res.inst.fields[1] = 0
           /\ r.res.inst.fields[2] # 0
  /\ dispatched.value = sSecret
  /\ dispatched.handler = 0
  /\ dispatched.err = "noprocessor"

\* the errors among the arguments of the Add calls, nil left out
NonNil(args) == SelectSeq(args, LAMBDA x : x # NilErr)

\* C38 (SpecErrs): for the Errors accumulator, Add(nil) changes nothing;
\* the accumulated slice holds every error whose Add has returned exactly
\* once, in the order of insertion, also when the Add calls are
\* concurrent; Errors() returns nil if and only if no Add of an error has
\* returned before, and otherwise the join of all of them in that order.
ErrorsAccumulate ==
  [][/\ (addLog' # addLog /\ addLog'[Len(addLog')] = NilErr) =>
          UNCHANGED <<errors, mutex, caller>>
     /\ \/ errors' = NonNil(addLog')
        \/ \E p \in Procs :
              /\ caller'[p].pc = "unlock"
              /\ errors' = Append(NonNil(addLog'), caller'[p].err)
     /\ joined' # joined =>
          /\ joined'.val = NonNil(SubSeq(addLog', 1, joined'.n))
          /\ joined'.val = << >> <=>
               (\A i \in 1..joined'.n : addLog'[i] = NilErr)]_vars

\* nil and two different errors have been added, and the second Errors()
\* call has returned the join of the two errors in the order of insertion
ErrorsAccumulateWitness ==
  /\ Len(addLog) = 3
  /\ \E i \in 1..3 : addLog[i] = NilErr
  /\ Len(errors) = 2 /\ errors[1] # errors[2]
  /\ joined.calls = 2
  /\ joined.val = errors
  /\ \A p \in Procs : caller[p].pc = "idle"

\* C39 (SpecReenter): every ResolveName call eventually returns, with the
\* container lock released, when every callback it invokes (factory,
\* middleware Process, Init) returns, also when the callbacks call
\* ResolveName on the same container (unless the runtime has stopped the
\* process on a racing map access).
ReentrantResolveReturns ==
  \A p \in Procs :
     (thread[p].op = "ResolveName") ~>
        ((thread[p].pc = "idle" /\ Held(p) = "none") \/ Crashed)

\* the same for the calls whose Init makes no call on the container
ResolveReturnsUnlessInitReenters ==
  \A p \in Procs :
     (thread[p].op = "ResolveName") ~>
        \/ thread[p].pc = "idle" /\ Held(p) = "none"
        \/ Crashed
        \/ \E q \in Procs : thread[q].pc = "inInit" /\ thread[q].nested = "rlock"
====
